---------------------------- MODULE Spec2Model ----------------------------
(***************************************************************************)
(* TerraTactics: a model of the App pipeline state machine (select area -> *)
(* fetch elevation -> contours / grid -> export), of the elevation raster  *)
(* sizing of ElevationService and of ContourService.generateContours.      *)
(*                                                                         *)
(* The repository holds three revisions of the App component:              *)
(*   "A"  src/src/App.tsx lines 12-325   (buttons always rendered, disabled*)
(*        by missing data or loading; handlers set an error on a guard)    *)
(*   "B"  src/src/App.tsx lines 338-692  (landing/generator views; a       *)
(*        section is rendered only once its input exists; handlers return  *)
(*        silently on a guard; the view switch resets nothing)             *)
(*   "C"  src/unnamed/part_003           (as B, with handleViewChange      *)
(*        resetting the artifacts and handleAreaSelected clearing the      *)
(*        selection)                                                       *)
(* The revision is fixed in the initial state and never changes.           *)
(***************************************************************************)
EXTENDS Integers, Sequences, FiniteSets, TLC

(***************************************************************************)
(* Bounds of the model.                                                    *)
(***************************************************************************)
MaxAreas == 2
MaxPending == 2
\* Coordinates are integers counting 1/UnitsPerDegree of a degree.
UnitsPerDegree == 7200
\* The largest raster whose samples the model computes one by one.
MaxRasterSamples == 1000
\* The largest raster (width * height) handed to ContourService.
MaxContourSamples == 6
\* The largest column index handed to generateCellId.
MaxColumn == 730

Areas == 1..MaxAreas
NoArea == 0
null == "null"

Variants == {"A", "B", "C"}
Formats == {"png", "pdf"}

VARIABLES
  variant,        \* which App revision runs
  appView,        \* 'landing' | 'generator' (B, C); A has no views
  selectedArea,   \* NoArea, or the rectangle drawn on the map
  elevationData,  \* NoArea, or the area whose bounds the raster carries
  contourData,    \* NoArea, or the area of the raster the contours came from
  gridData,       \* NoArea, or the area the grid was generated for
  loading,
  error,
  pending,        \* promises awaited by handlers, in the order they started
  lastCall        \* the handler that ran in the last step and how it left

VARIABLES
  bounds,         \* the Bounds handed to ElevationService
  elevCall,       \* the ElevationService method that ran, or "none"
  elev            \* the ElevationData it returned

elevVars == <<bounds, elevCall, elev>>

VARIABLES
  raster,         \* the ElevationData handed to ContourService
  interval,       \* the contour interval
  contourCall,    \* the generateContours revision that ran, or "none"
  thresholds,     \* its local `thresholds`
  contours        \* the ContourLine[] it returned

contourVars == <<raster, interval, contourCall, thresholds, contours>>

VARIABLES
  gridBounds,     \* the Bounds handed to GridService
  gridType,       \* GridType: "square" | "hex"
  gridSize,       \* the cell size asked for
  gridConfig,     \* showLabels and labelCharset of the GridConfig
  gridCall,       \* the generateGrid revision that ran, or "none"
  grid            \* the GridCell[] it returned

gridVars == <<gridBounds, gridType, gridSize, gridConfig, gridCall, grid>>

VARIABLES
  cellX,          \* column index handed to generateCellId
  cellY,          \* row index handed to generateCellId
  cellId          \* the id it returned, or NoId before the call

idVars == <<cellX, cellY, cellId>>

VARIABLES
  renderBounds,   \* the Bounds handed to the renderer
  canvasSize,     \* <<width, height>> of the canvas
  renderOptions,  \* the options that switch labels, scale bar and metadata
  renderContours, \* the ContourLine[] handed to the renderer
  renderGrid,     \* the GridCell[] handed to the renderer
  renderCall,     \* the service that drew, or "none"
  ops             \* the calls made on the 2D context, in order

renderVars == <<renderBounds, canvasSize, renderOptions, renderContours,
                renderGrid, renderCall, ops>>

VARIABLES
  exportOptions,  \* format, paperSize, orientation, dpi and custom size
  exportCall,     \* the exportMap revision that ran, or "none"
  pageSize,       \* the page dimensions it computed, in micrometres
  exportCanvas    \* the canvas it rendered to: <<width, height>> in pixels

exportVars == <<exportOptions, exportCall, pageSize, exportCanvas>>

(***************************************************************************)
(* The map widget and the selection it reports to the App.                 *)
(***************************************************************************)
VARIABLES
  mapRevision,    \* "App.tsx" (map built by the App) or "TerrainMap.tsx"
  drawnLayer,     \* bounds of the rectangle in the feature group, or NoBounds
  drawEvent,      \* the last Leaflet.Draw event: its kind and its bounds
  selection       \* the App's selectedArea after it: bounds or NoBounds

selectionVars == <<mapRevision, drawnLayer, drawEvent, selection>>

(***************************************************************************)
(* ContourService.simplifyContours (src/unnamed/part_007).                 *)
(***************************************************************************)
VARIABLES
  simplifyArg,        \* the contour lines handed to simplifyContours
  simplifyTolerance,  \* its tolerance
  simplifyResult      \* the contour lines it returned, or NotSimplified

simplifyVars == <<simplifyArg, simplifyTolerance, simplifyResult>>

(***************************************************************************)
(* A contour or grid stage run from the App, at the grain of its loops.    *)
(***************************************************************************)
VARIABLES
  contourInterval,  \* the App's contourInterval state
  gridSizeInput,    \* the App's gridSize state
  stagePc,          \* "idle", "thresholds", "cells" or "crashed"
  stageLoading,     \* the App's loading flag during the run
  stageOutcome,     \* "none", "result" or "error"
  loopI,            \* the loop variable i (a threshold, or a row)
  loopJ,            \* the loop variable j (a column)
  pushed            \* the number of elements pushed on the array

stageVars == <<contourInterval, gridSizeInput, stagePc, stageLoading,
               stageOutcome, loopI, loopJ, pushed>>

appVars == <<variant, appView, selectedArea, elevationData, contourData,
             gridData, loading, error, pending, lastCall>>

artifacts == <<elevationData, contourData, gridData, selectedArea>>

nonAppVars == <<elevVars, contourVars, gridVars, idVars, renderVars,
                exportVars, selectionVars, simplifyVars,
                stageVars>>

nonElevVars == <<appVars, contourVars, gridVars, idVars, renderVars,
                 exportVars, selectionVars, simplifyVars,
                 stageVars>>

nonContourVars == <<appVars, elevVars, gridVars, idVars, renderVars,
                    exportVars, selectionVars,
                    simplifyVars, stageVars>>

nonGridVars == <<appVars, elevVars, contourVars, idVars, renderVars,
                 exportVars, selectionVars, simplifyVars,
                 stageVars>>

nonIdVars == <<appVars, elevVars, contourVars, gridBounds, gridType,
               gridSize, gridCall, grid, renderVars,
               exportVars, selectionVars, simplifyVars,
               stageVars>>

nonStageVars == <<appVars, elevVars, contourVars, gridVars, idVars,
                  renderVars, exportVars, selectionVars,
                  simplifyVars>>

nonSimplifyVars == <<appVars, elevVars, contourVars, gridVars, idVars,
                     renderVars, exportVars,
                     selectionVars, stageVars>>

nonSelectionVars == <<appVars, elevVars, contourVars, gridVars, idVars,
                      renderVars, exportVars,
                      simplifyVars, stageVars>>

nonExportVars == <<appVars, elevVars, contourVars, gridVars, idVars,
                   renderVars, selectionVars,
                   simplifyVars, stageVars>>

nonRenderVars == <<appVars, elevVars, contourVars, gridVars, idVars,
                   exportVars, selectionVars,
                   simplifyVars, stageVars>>

(***************************************************************************)
(* The messages the handlers hand to setError.                             *)
(***************************************************************************)
MsgSelectArea == "Please select an area on the map first"
MsgNoElevation == "No elevation data available"
MsgGenerateAll == "Please generate all data before exporting"
MsgFetchFailed == "Failed to fetch elevation data"
MsgContoursFailed == "Failed to generate contours"
MsgGridFailed == "Failed to generate grid"
MsgExportFailed == "Failed to export map"

GuardMessages == {MsgSelectArea, MsgNoElevation, MsgGenerateAll}
FailureMessages == {MsgFetchFailed, MsgContoursFailed, MsgGridFailed,
                    MsgExportFailed}

Call(op, outcome) == [op |-> op, outcome |-> outcome]

(***************************************************************************)
(* A continuation waiting on an already settled promise runs as a          *)
(* microtask, before the browser delivers any further event.               *)
(* ElevationService.getElevationData has no await inside, so its promise   *)
(* is settled when the handler reaches its await; ExportService.exportMap  *)
(* resolves from a canvas.toBlob callback, which is a later task.          *)
(***************************************************************************)
MicrotaskPending == \E i \in 1..Len(pending) : pending[i].micro

Remove(s, i) == SubSeq(s, 1, i - 1) \o SubSeq(s, i + 1, Len(s))

ViewsShown == variant \in {"B", "C"}
GeneratorShown == variant = "A" \/ appView = "generator"

(***************************************************************************)
(* The rendered controls: `disabled` (A) and conditional rendering plus    *)
(* `disabled` (B, C).                                                      *)
(***************************************************************************)
FetchButtonEnabledNoLoading ==
  GeneratorShown /\ selectedArea # NoArea

FetchButtonEnabled ==
  GeneratorShown /\ selectedArea # NoArea /\ ~loading

ContoursButtonEnabled ==
  GeneratorShown /\ elevationData # NoArea /\ ~loading

GridButtonEnabled ==
  /\ GeneratorShown
  /\ IF variant = "A" THEN selectedArea # NoArea ELSE contourData # NoArea
  /\ ~loading

ExportButtonEnabled ==
  /\ GeneratorShown
  /\ IF variant = "A"
       THEN elevationData # NoArea /\ contourData # NoArea /\ gridData # NoArea
       ELSE gridData # NoArea
  /\ ~loading

AppInit ==
  /\ variant \in Variants
  /\ appView = IF variant = "A" THEN "generator" ELSE "landing"
  /\ selectedArea = NoArea
  /\ elevationData = NoArea
  /\ contourData = NoArea
  /\ gridData = NoArea
  /\ loading = FALSE
  /\ error = null
  /\ pending = <<>>
  /\ lastCall = Call("init", "none")

(***************************************************************************)
(* Selection events of the map widget.                                     *)
(***************************************************************************)
\* Draw CREATED (A, B) / handleAreaSelected with valid bounds (C).
SelectArea(ui, a) ==
  /\ UNCHANGED nonAppVars
  /\ ~MicrotaskPending
  /\ ui => GeneratorShown
  /\ selectedArea' = a
  /\ lastCall' = Call("selectArea", "done")
  /\ UNCHANGED <<variant, appView, elevationData, contourData, gridData,
                 loading, error, pending>>

\* handleAreaSelected with bounds that are invalid or have north = 0 (the
\* delete event of TerrainMap passes [0,0],[0,0]).
ClearArea(ui) ==
  /\ UNCHANGED nonAppVars
  /\ ~MicrotaskPending
  /\ variant = "C"
  /\ ui => GeneratorShown
  /\ selectedArea' = NoArea
  /\ lastCall' = Call("clearArea", "done")
  /\ UNCHANGED <<variant, appView, elevationData, contourData, gridData,
                 loading, error, pending>>

\* setAppView (B) / handleViewChange (C).
handleViewChange(ui, view) ==
  /\ UNCHANGED nonAppVars
  /\ ~MicrotaskPending
  /\ ViewsShown
  /\ ui => appView # view
  /\ appView' = view
  /\ IF variant = "C" /\ view = "landing"
       THEN /\ selectedArea' = NoArea
            /\ elevationData' = NoArea
            /\ contourData' = NoArea
            /\ gridData' = NoArea
       ELSE UNCHANGED artifacts
  /\ lastCall' = Call("viewChange", "done")
  /\ UNCHANGED <<variant, loading, error, pending>>

(***************************************************************************)
(* Stage 1: elevation.                                                     *)
(***************************************************************************)
StartAwait(op, micro) ==
  /\ Len(pending) < MaxPending
  /\ loading' = TRUE
  /\ error' = null
  /\ pending' = Append(pending, [op |-> op, micro |-> micro,
                                 area |-> selectedArea,
                                 contours |-> contourData,
                                 grid |-> gridData])

\* A: fetchElevationData.
fetchElevationData(ui) ==
  /\ UNCHANGED nonAppVars
  /\ ~MicrotaskPending
  /\ variant = "A"
  /\ ui => FetchButtonEnabled
  /\ IF selectedArea = NoArea
       THEN /\ error' = MsgSelectArea
            /\ lastCall' = Call("fetch", "error")
            /\ UNCHANGED <<loading, pending>>
       ELSE /\ StartAwait("fetch", TRUE)
            /\ lastCall' = Call("fetch", "started")
  /\ UNCHANGED <<variant, appView, artifacts>>

\* B, C: handleGenerateElevationData.
handleGenerateElevationData(ui) ==
  /\ UNCHANGED nonAppVars
  /\ ~MicrotaskPending
  /\ variant \in {"B", "C"}
  /\ ui => FetchButtonEnabled
  /\ IF selectedArea = NoArea
       THEN /\ lastCall' = Call("fetch", "returned")
            /\ UNCHANGED <<loading, error, pending>>
       ELSE /\ StartAwait("fetch", TRUE)
            /\ lastCall' = Call("fetch", "started")
  /\ UNCHANGED <<variant, appView, artifacts>>

\* The continuation after `await ElevationService.getElevationData(bounds)`:
\* setElevationData(data), or the catch; then the finally.
FetchSettleClearing(i, ok) ==
  /\ UNCHANGED nonAppVars
  /\ i \in 1..Len(pending)
  /\ pending[i].op = "fetch"
  /\ IF ok
       THEN /\ elevationData' = pending[i].area
            /\ lastCall' = Call("fetch", "resolved")
            /\ UNCHANGED error
       ELSE /\ elevationData' = NoArea
            /\ error' = MsgFetchFailed
            /\ lastCall' = Call("fetch", "rejected")
  /\ loading' = FALSE
  /\ pending' = Remove(pending, i)
  /\ UNCHANGED <<variant, appView, selectedArea, contourData, gridData>>

FetchSettle(i, ok) ==
  /\ UNCHANGED nonAppVars
  /\ i \in 1..Len(pending)
  /\ pending[i].op = "fetch"
  /\ IF ok
       THEN /\ elevationData' = pending[i].area
            /\ lastCall' = Call("fetch", "resolved")
            /\ UNCHANGED error
       ELSE /\ error' = MsgFetchFailed
            /\ lastCall' = Call("fetch", "rejected")
            /\ UNCHANGED elevationData
  /\ loading' = FALSE
  /\ pending' = Remove(pending, i)
  /\ UNCHANGED <<variant, appView, selectedArea, contourData, gridData>>

(***************************************************************************)
(* Stage 2: contours and grid.  Both handlers run to their end without a   *)
(* pending await: setLoading(true) and the finally's setLoading(false)     *)
(* are batched into one update.                                            *)
(***************************************************************************)
RunSync(op, ok, failure) ==
  /\ loading' = FALSE
  /\ IF ok
       THEN /\ error' = null
            /\ lastCall' = Call(op, "done")
       ELSE /\ error' = failure
            /\ lastCall' = Call(op, "failed")

\* A: generateContours.
App_generateContours(ui, ok) ==
  /\ UNCHANGED nonAppVars
  /\ ~MicrotaskPending
  /\ variant = "A"
  /\ ui => ContoursButtonEnabled
  /\ IF elevationData = NoArea
       THEN /\ error' = MsgNoElevation
            /\ lastCall' = Call("contours", "error")
            /\ UNCHANGED <<loading, contourData>>
       ELSE /\ RunSync("contours", ok, MsgContoursFailed)
            /\ contourData' = IF ok THEN elevationData ELSE contourData
  /\ UNCHANGED <<variant, appView, selectedArea, elevationData, gridData,
                 pending>>

\* B, C: handleGenerateContours.
handleGenerateContours(ui, ok) ==
  /\ UNCHANGED nonAppVars
  /\ ~MicrotaskPending
  /\ variant \in {"B", "C"}
  /\ ui => ContoursButtonEnabled
  /\ IF elevationData = NoArea
       THEN /\ lastCall' = Call("contours", "returned")
            /\ UNCHANGED <<loading, error, contourData>>
       ELSE /\ RunSync("contours", ok, MsgContoursFailed)
            /\ contourData' = IF ok THEN elevationData ELSE contourData
  /\ UNCHANGED <<variant, appView, selectedArea, elevationData, gridData,
                 pending>>

\* A: generateGrid.
App_generateGrid(ui, ok) ==
  /\ UNCHANGED nonAppVars
  /\ ~MicrotaskPending
  /\ variant = "A"
  /\ ui => GridButtonEnabled
  /\ IF selectedArea = NoArea
       THEN /\ error' = MsgSelectArea
            /\ lastCall' = Call("grid", "error")
            /\ UNCHANGED <<loading, gridData>>
       ELSE /\ RunSync("grid", ok, MsgGridFailed)
            /\ gridData' = IF ok THEN selectedArea ELSE gridData
  /\ UNCHANGED <<variant, appView, selectedArea, elevationData, contourData,
                 pending>>

\* B, C: handleGenerateGrid.
handleGenerateGrid(ui, ok) ==
  /\ UNCHANGED nonAppVars
  /\ ~MicrotaskPending
  /\ variant \in {"B", "C"}
  /\ ui => GridButtonEnabled
  /\ IF selectedArea = NoArea
       THEN /\ lastCall' = Call("grid", "returned")
            /\ UNCHANGED <<loading, error, gridData>>
       ELSE /\ RunSync("grid", ok, MsgGridFailed)
            /\ gridData' = IF ok THEN selectedArea ELSE gridData
  /\ UNCHANGED <<variant, appView, selectedArea, elevationData, contourData,
                 pending>>

(***************************************************************************)
(* Stage 3: export.  `throws` is ExportService.exportMap throwing before   *)
(* its promise is created (no canvas context): the promise is rejected at  *)
(* once and the catch runs as a microtask.                                 *)
(***************************************************************************)
\* A: exportMap.
App_exportMap(ui, format, throws) ==
  /\ UNCHANGED nonAppVars
  /\ ~MicrotaskPending
  /\ variant = "A"
  /\ ui => ExportButtonEnabled
  /\ IF elevationData = NoArea \/ contourData = NoArea \/ gridData = NoArea
       THEN /\ error' = MsgGenerateAll
            /\ lastCall' = Call("export", "error")
            /\ UNCHANGED <<loading, pending>>
       ELSE IF selectedArea = NoArea
         THEN /\ loading' = FALSE
              /\ error' = null
              /\ lastCall' = Call("export", "skipped")
              /\ UNCHANGED pending
         ELSE /\ StartAwait("export", throws)
              /\ lastCall' = Call("export", "started")
  /\ UNCHANGED <<variant, appView, artifacts>>

\* B, C: handleExport.
handleExport(ui, format, throws) ==
  /\ UNCHANGED nonAppVars
  /\ ~MicrotaskPending
  /\ variant \in {"B", "C"}
  /\ ui => ExportButtonEnabled
  /\ IF selectedArea = NoArea \/ contourData = NoArea \/ gridData = NoArea
       THEN /\ lastCall' = Call("export", "returned")
            /\ UNCHANGED <<loading, error, pending>>
       ELSE /\ StartAwait("export", throws)
            /\ lastCall' = Call("export", "started")
  /\ UNCHANGED <<variant, appView, artifacts>>

\* The continuation after `await ExportService.exportMap(...)`: the download
\* link is clicked, or the catch; then the finally.
ExportSettle(i, ok) ==
  /\ UNCHANGED nonAppVars
  /\ i \in 1..Len(pending)
  /\ pending[i].op = "export"
  /\ pending[i].micro \/ ~MicrotaskPending
  /\ pending[i].micro => ~ok
  /\ IF ok
       THEN /\ lastCall' = Call("export", "resolved")
            /\ UNCHANGED error
       ELSE /\ error' = MsgExportFailed
            /\ lastCall' = Call("export", "rejected")
  /\ loading' = FALSE
  /\ pending' = Remove(pending, i)
  /\ UNCHANGED <<variant, appView, artifacts>>


(***************************************************************************)
(* ElevationService.  Elevations are fixed-point numbers counting 1/1000 m;*)
(* Math.sin, Math.cos and Math.sqrt are computed in integer arithmetic     *)
(* (Bhaskara's sine, an integer square root), so a sample is within a few  *)
(* metres of the double the code computes.  Raster sizes are computed in   *)
(* exact rational arithmetic.                                              *)
(***************************************************************************)
Infinity == 1000000000
SamplesPerDegree == 3600
maxSize == 1000
OpenTopoSamplesPerDegree == 1200
OpenTopoMaxSize == 500

Max2(a, b) == IF a >= b THEN a ELSE b
Min2(a, b) == IF a <= b THEN a ELSE b

FloorPlusOne(n, d) == (n \div d) + 1

\* Math.ceil(n / d) and Math.floor(n / d) for d > 0.
CeilDiv(n, d) == -((-n) \div d)
FloorDiv(n, d) == n \div d

\* Math.ceil((east - west) * 3600), Math.ceil((north - south) * 3600).
RawWidth(b) == CeilDiv((b.east - b.west) * SamplesPerDegree, UnitsPerDegree)
RawHeight(b) == CeilDiv((b.north - b.south) * SamplesPerDegree, UnitsPerDegree)

\* Math.floor(n * scale), scale = Math.min(1, maxSize / Math.max(width, height)).
Scaled(n, width, height) ==
  IF Max2(width, height) <= maxSize
    THEN n
    ELSE FloorDiv(n * maxSize, Max2(width, height))

scaledWidth(b) == Scaled(RawWidth(b), RawWidth(b), RawHeight(b))
scaledHeight(b) == Scaled(RawHeight(b), RawWidth(b), RawHeight(b))

OpenTopoWidthUnclamped(b) ==
  CeilDiv((b.east - b.west) * OpenTopoSamplesPerDegree, UnitsPerDegree)

\* Math.min(500, Math.ceil((east - west) * 1200)).
OpenTopoWidth(b) ==
  Min2(OpenTopoMaxSize,
       CeilDiv((b.east - b.west) * OpenTopoSamplesPerDegree, UnitsPerDegree))
OpenTopoHeight(b) ==
  Min2(OpenTopoMaxSize,
       CeilDiv((b.north - b.south) * OpenTopoSamplesPerDegree, UnitsPerDegree))

\* 1000 * sin(a / 1000) for a >= 0, a in 1/1000 rad.
SinMilli(a) ==
  LET r == a % 6284
      x == IF r < 3142 THEN r ELSE r - 3142
      p == x * (3142 - x)
      v == (16 * p) \div ((5 * 3142 * 3142 - 4 * p) \div 1000)
  IN  IF r < 3142 THEN v ELSE -v
CosMilli(a) == SinMilli(a + 1571)

RECURSIVE Bisect(_, _, _)
Bisect(n, lo, hi) ==
  IF hi - lo <= 1 THEN lo
  ELSE LET mid == (lo + hi) \div 2
       IN  IF mid * mid <= n THEN Bisect(n, mid, hi) ELSE Bisect(n, lo, mid)
\* Math.sqrt(n) rounded down, n < 2^31.
ISqrt(n) == Bisect(n, 0, Min2(n + 1, 46341))

\* The elevation of sample (x, y), lines 88-102.
SimulatedElevation(x, y, width, height) ==
  LET d2 == (2 * x - width) * (2 * x - width)
              + (2 * y - height) * (2 * y - height)
      m == Min2(width, height)
      \* 1000 * (1 - distanceFromCenter / (min / 2)), distance = sqrt(d2) / 2
      mountainFactor == IF d2 >= m * m THEN 0
                        ELSE Max2(0, 1000 - ISqrt(d2 * 1000000) \div m)
      e == 500000
             + (SinMilli(50 * x) * CosMilli(50 * y) * 200) \div 1000
             + SinMilli(100 * (x + y)) * 100
             + mountainFactor * 500
  IN  Max2(0, e)

SeqMin(s) == CHOOSE v \in {s[i] : i \in 1..Len(s)} :
               \A j \in 1..Len(s) : v <= s[j]
SeqMax(s) == CHOOSE v \in {s[i] : i \in 1..Len(s)} :
               \A j \in 1..Len(s) : v >= s[j]

\* minElevation = Math.min(minElevation, elevation) over the samples lo..hi,
\* from acc; likewise maxElevation.  The range is folded half by half.
RECURSIVE RunningMin(_, _, _, _)
RunningMin(s, lo, hi, acc) ==
  IF lo > hi THEN acc
  ELSE IF lo = hi THEN Min2(acc, s[lo])
  ELSE LET mid == (lo + hi) \div 2
           left == RunningMin(s, lo, mid, acc)
           right == RunningMin(s, mid + 1, hi, acc)
       IN  Min2(left, right)

RECURSIVE RunningMax(_, _, _, _)
RunningMax(s, lo, hi, acc) ==
  IF lo > hi THEN acc
  ELSE IF lo = hi THEN Max2(acc, s[lo])
  ELSE LET mid == (lo + hi) \div 2
           left == RunningMax(s, lo, mid, acc)
           right == RunningMax(s, mid + 1, hi, acc)
       IN  Max2(left, right)

\* generateSimulatedElevationData: data[y * width + x] is element
\* y * width + x + 1 of the sequence.
generateSimulatedElevationData(width, height) ==
  LET data == [i \in 1..(width * height) |->
                 SimulatedElevation((i - 1) % width, (i - 1) \div width,
                                    width, height)]
  IN  [data |-> data,
       minElevation |-> RunningMin(data, 1, Len(data), Infinity),
       maxElevation |-> RunningMax(data, 1, Len(data), -Infinity)]

ElevationData(simulated, width, height, b) ==
  [data |-> simulated.data, width |-> width, height |-> height, bounds |-> b,
   minElevation |-> simulated.minElevation,
   maxElevation |-> simulated.maxElevation]

NoElevation ==
  [data |-> <<>>, width |-> 0, height |-> 0,
   bounds |-> [north |-> 0, south |-> 0, east |-> 0, west |-> 0],
   minElevation |-> 0, maxElevation |-> 0]

\* The spans (east - west, north - south) the bounds are drawn from.
SpanSamples == {1, 2, 3, 4, 5, 6, 1999, 2000, 2001, 2002, 4000, 7200}
Origins == {0, -3}

ValidBounds ==
  {[north |-> s + dy, south |-> s, east |-> w + dx, west |-> w] :
     s \in {0}, w \in Origins, dx \in SpanSamples, dy \in SpanSamples}

ElevInit ==
  /\ bounds \in ValidBounds
  /\ elevCall = "none"
  /\ elev = NoElevation

ElevIdle ==
  /\ bounds = [north |-> 1, south |-> 0, east |-> 1, west |-> 0]
  /\ elevCall = "none"
  /\ elev = NoElevation

getElevationData ==
  /\ UNCHANGED nonElevVars
  /\ elevCall = "none"
  /\ scaledWidth(bounds) * scaledHeight(bounds) <= MaxRasterSamples
  /\ elevCall' = "getElevationData"
  /\ elev' = ElevationData(
               generateSimulatedElevationData(scaledWidth(bounds),
                                              scaledHeight(bounds)),
               scaledWidth(bounds), scaledHeight(bounds), bounds)
  /\ UNCHANGED bounds

getOpenTopographyData ==
  /\ UNCHANGED nonElevVars
  /\ elevCall = "none"
  /\ OpenTopoWidth(bounds) * OpenTopoHeight(bounds) <= MaxRasterSamples
  /\ elevCall' = "getOpenTopographyData"
  /\ elev' = ElevationData(
               generateSimulatedElevationData(OpenTopoWidth(bounds),
                                              OpenTopoHeight(bounds)),
               OpenTopoWidth(bounds), OpenTopoHeight(bounds), bounds)
  /\ UNCHANGED bounds


(***************************************************************************)
(* ContourService.generateContours, in its two revisions:                  *)
(*   src/src/services/ContourService.ts  (cell scan, one ring per cell)    *)
(*   src/unnamed/part_007                (thresholds handed to d3-contour) *)
(* Elevations and the interval are integers.  A ring point [lng, lat] is   *)
(* kept exactly: lng counts 1/(2*width) and lat 1/(2*height) of the unit   *)
(* of the raster's bounds.                                                 *)
(***************************************************************************)
\* for (let i = start; i <= max; i += interval) thresholds.push(i)
RECURSIVE ThresholdLoopStrict(_, _, _, _)
ThresholdLoopStrict(i, max, step, acc) ==
  IF i < max THEN ThresholdLoopStrict(i + step, max, step, Append(acc, i))
  ELSE acc

RECURSIVE ThresholdLoop(_, _, _, _)
ThresholdLoop(i, max, step, acc) ==
  IF i <= max THEN ThresholdLoop(i + step, max, step, Append(acc, i))
  ELSE acc

\* ContourService.ts lines 32-37.
Thresholds(r, step) ==
  ThresholdLoop(FloorDiv(r.minElevation, step) * step, r.maxElevation, step,
                <<>>)

\* part_007 lines 44-56.
validValues(r) == SelectSeq(r.data, LAMBDA v : v # r.noDataValue)

ThresholdsD3(r, step) ==
  LET valid == validValues(r)
      minElevation == IF valid = <<>> THEN Infinity ELSE SeqMin(valid)
      maxElevation == IF valid = <<>> THEN -Infinity ELSE SeqMax(valid)
      roundedMin == FloorDiv(minElevation, step) * step
      roundedMax == CeilDiv(maxElevation, step) * step
  IN  ThresholdLoop(roundedMin, roundedMax, step, <<>>)

\* The four corners of the cell at (x, y): val, right, below, below-right.
Corners(r, x, y) ==
  LET idx == y * r.width + x
  IN  <<r.data[idx + 1], r.data[idx + 2],
        r.data[idx + r.width + 1], r.data[idx + r.width + 2]>>

\* aboveThreshold && belowThreshold
CrossesStrictlyAbove(corners, threshold) ==
  /\ \E k \in 1..4 : corners[k] > threshold
  /\ \E k \in 1..4 : corners[k] < threshold

Crosses(corners, threshold) ==
  /\ \E k \in 1..4 : corners[k] >= threshold
  /\ \E k \in 1..4 : corners[k] < threshold

\* [west + (x + 0.5) * lngStep, north - (y + 0.5) * latStep]
CellCenter(r, x, y) ==
  [lng |-> 2 * r.width * r.bounds.west
             + (2 * x + 1) * (r.bounds.east - r.bounds.west),
   lat |-> 2 * r.height * r.bounds.north
             - (2 * y + 1) * (r.bounds.north - r.bounds.south)]

CellCorner(r, x, y) ==
  [lng |-> 2 * r.width * r.bounds.west
             + (2 * x) * (r.bounds.east - r.bounds.west),
   lat |-> 2 * r.height * r.bounds.north
             - (2 * y) * (r.bounds.north - r.bounds.south)]

\* The ring a crossed cell contributes.
CellRingOpen(r, x, y) == <<CellCorner(r, x, y), CellCenter(r, x, y)>>

CellRing(r, x, y) == <<CellCenter(r, x, y)>>

\* The cells (x, y), 0 <= x < width - 1, 0 <= y < height - 1, y outermost.
Cells(r) ==
  [k \in 1..((r.width - 1) * (r.height - 1)) |->
     [x |-> (k - 1) % (r.width - 1), y |-> (k - 1) \div (r.width - 1)]]

\* contourCoordinates of one threshold, lines 47-89.
contourCoordinates(r, threshold) ==
  LET crossed == SelectSeq(Cells(r),
                           LAMBDA c : Crosses(Corners(r, c.x, c.y), threshold))
  IN  [k \in 1..Len(crossed) |-> CellRing(r, crossed[k].x, crossed[k].y)]

ContourLinesAll(r, ths) ==
  [k \in 1..Len(ths) |->
     [elevation |-> ths[k], coordinates |-> contourCoordinates(r, ths[k])]]

\* ContourService.ts: thresholds.forEach(...) pushing the non-empty ones.
ContourLines(r, ths) ==
  SelectSeq([k \in 1..Len(ths) |->
               [elevation |-> ths[k],
                coordinates |-> contourCoordinates(r, ths[k])]],
            LAMBDA c : Len(c.coordinates) > 0)

\* d3.contours().size([width, height]).thresholds(ths)(data): the library
\* returns one MultiPolygon per threshold, in the order of the thresholds,
\* around the samples that are >= the threshold.  Its geometry is kept as the
\* set of those sample indices.
d3contours(r, ths) ==
  [k \in 1..Len(ths) |->
     [value |-> ths[k],
      coordinates |-> {i \in 1..Len(r.data) : r.data[i] >= ths[k]}]]

\* a % b of JavaScript: the sign of the dividend.
JsRem(a, b) ==
  LET m == IF b < 0 THEN -b ELSE b
  IN  IF a >= 0 THEN a % m ELSE -((-a) % m)

majorIntervalDefault == 5

\* part_007: contours.map(...), lines 66-88.
ContourLinesD3(r, ths, step, majorInterval) ==
  LET cs == d3contours(r, ths)
  IN  [k \in 1..Len(cs) |->
         [level |-> cs[k].value,
          path |-> cs[k].coordinates,
          isMajor |-> JsRem(cs[k].value, step * majorInterval) = 0]]

ElevSamples == {-7, 10, 23}
IntervalSamples == {5, 10}
RasterBounds == [north |-> 4, south |-> 0, east |-> 5, west |-> -1]

\* The rasters ElevationService can hand over: minElevation and maxElevation
\* are the minimum and maximum of the samples.  ElevationService sets no
\* noDataValue; the field holds a value that no sample takes.
RasterSizes ==
  {wh \in (1..MaxContourSamples) \X (1..MaxContourSamples) :
     wh[1] * wh[2] <= MaxContourSamples}

Rasters ==
  UNION {
    {[data |-> d, width |-> wh[1], height |-> wh[2], bounds |-> RasterBounds,
      noDataValue |-> -9999,
      minElevation |-> SeqMin(d), maxElevation |-> SeqMax(d)] :
       d \in [1..(wh[1] * wh[2]) -> ElevSamples]} :
    wh \in RasterSizes}

NoRaster ==
  [data |-> <<0>>, width |-> 1, height |-> 1, bounds |-> RasterBounds,
   noDataValue |-> -9999, minElevation |-> 0, maxElevation |-> 0]

ContourInit ==
  /\ raster \in Rasters
  /\ interval \in IntervalSamples
  /\ contourCall = "none"
  /\ thresholds = <<>>
  /\ contours = <<>>

ContourIdle ==
  /\ raster = NoRaster
  /\ interval = 10
  /\ contourCall = "none"
  /\ thresholds = <<>>
  /\ contours = <<>>

\* ContourService.ts
generateContours ==
  /\ UNCHANGED nonContourVars
  /\ contourCall = "none"
  /\ contourCall' = "ContourService.ts"
  /\ thresholds' = Thresholds(raster, interval)
  /\ contours' = ContourLines(raster, Thresholds(raster, interval))
  /\ UNCHANGED <<raster, interval>>

\* part_007
generateContoursD3 ==
  /\ UNCHANGED nonContourVars
  /\ contourCall = "none"
  /\ contourCall' = "part_007"
  /\ thresholds' = ThresholdsD3(raster, interval)
  /\ contours' = ContourLinesD3(raster, ThresholdsD3(raster, interval),
                                interval, majorIntervalDefault)
  /\ UNCHANGED <<raster, interval>>

\* part_007 lines 105-138: what the worker posts back.  It computes the
\* thresholds and answers with one contour at roundedMin, whatever the raster.
WorkerContours(r, step) ==
  LET ths == ThresholdsD3(r, step)
      roundedMin == IF ths = <<>>
                      THEN FloorDiv(Infinity, step) * step ELSE ths[1]
  IN  <<[level |-> roundedMin, path |-> {}, isMajor |-> TRUE]>>

\* part_007 generateContoursAsync: resolve(e.data.contours) when a Worker can
\* be constructed, the catch (generateContours) when it cannot.
generateContoursAsync ==
  /\ UNCHANGED nonContourVars
  /\ contourCall = "none"
  /\ \E workers \in BOOLEAN :
       /\ contourCall' = IF workers THEN "part_007.async.worker"
                                    ELSE "part_007.async.fallback"
       /\ contours' = IF workers
                        THEN WorkerContours(raster, interval)
                        ELSE ContourLinesD3(raster,
                                            ThresholdsD3(raster, interval),
                                            interval, majorIntervalDefault)
  /\ thresholds' = ThresholdsD3(raster, interval)
  /\ UNCHANGED <<raster, interval>>

(***************************************************************************)
(* GridService.generateGrid, in its two revisions:                         *)
(*   "GridService.ts"       src/src/services/GridService.ts lines 17-247   *)
(*        generateGrid(bounds, gridType, gridSize), cell size in feet      *)
(*   "ElevationService.ts"  src/src/services/ElevationService.ts 171-372   *)
(*        generateGrid(bounds, config), cell size gridSizeKm / 111 degrees *)
(* Latitudes and longitudes are counted in grid units (a fixed fraction of *)
(* a degree); a distance is counted in the length of one grid unit of      *)
(* latitude.  A longitude of a cell is the integer lng / GridDen; a        *)
(* latitude is the pair [r, s] standing for (r + s * sqrt(3)) / GridDen,   *)
(* which is exact for the hexagons (sin 60 = sqrt(3) / 2).                 *)
(***************************************************************************)
GridDen == 24

Q(r, s) == [r |-> r, s |-> s]
QAdd(p, q) == [r |-> p.r + q.r, s |-> p.s + q.s]
QSub(p, q) == [r |-> p.r - q.r, s |-> p.s - q.s]
QScale(n, p) == [r |-> n * p.r, s |-> n * p.s]

\* The sign of r + s * sqrt(3).
QSign(p) ==
  IF p.r = 0 /\ p.s = 0 THEN 0
  ELSE IF p.r >= 0 /\ p.s >= 0 THEN 1
  ELSE IF p.r <= 0 /\ p.s <= 0 THEN -1
  ELSE IF p.r > 0 THEN (IF p.r * p.r > 3 * p.s * p.s THEN 1 ELSE -1)
  ELSE (IF 3 * p.s * p.s > p.r * p.r THEN 1 ELSE -1)

QLess(p, q) == QSign(QSub(q, p)) = 1

\* The latitudes of the model lie within a degree of 0 and of 60 degrees
\* (SixtyLat, in grid units), where Math.cos(lat * Math.PI / 180) is taken as
\* 1 and as 1/2; the cosine is kept as its inverse.
SixtyLat == 600

InverseCos(lat) == IF 2 * lat >= SixtyLat THEN 2 ELSE 1

\* calculateDistance, GridService.ts lines 191-216, for the two uses made of
\* it: along a meridian the haversine is the arc of the latitude difference,
\* along a parallel (of a span small against the radius) the arc of the
\* longitude difference times cos(lat).  The distance is returned as the
\* pair [num, den].
Abs(n) == IF n < 0 THEN -n ELSE n

calculateDistance(lat1, lon1, lat2, lon2) ==
  IF lon1 = lon2
    THEN [num |-> Abs(lat2 - lat1), den |-> 1]
    ELSE [num |-> Abs(lon2 - lon1), den |-> InverseCos(lat1)]

\* A square cell whose east edge stops one unit short.
SquareCellNarrow(id, x, y, w, e, n, s) ==
  [id |-> id, col |-> x, row |-> y,
   coordinates |-> <<[lng |-> w, lat |-> Q(n, 0)],
                     [lng |-> e - 1, lat |-> Q(n, 0)],
                     [lng |-> e - 1, lat |-> Q(s, 0)],
                     [lng |-> w, lat |-> Q(s, 0)],
                     [lng |-> w, lat |-> Q(n, 0)]>>,
   center |-> [lng |-> (w + e) \div 2, lat |-> Q((n + s) \div 2, 0)]]

\* A square cell; x is the column, y the row; w, e, n, s its edges times
\* GridDen.
SquareCell(id, x, y, w, e, n, s) ==
  [id |-> id, col |-> x, row |-> y,
   coordinates |-> <<[lng |-> w, lat |-> Q(n, 0)], [lng |-> e, lat |-> Q(n, 0)],
                     [lng |-> e, lat |-> Q(s, 0)], [lng |-> w, lat |-> Q(s, 0)],
                     [lng |-> w, lat |-> Q(n, 0)]>>,
   center |-> [lng |-> (w + e) \div 2, lat |-> Q((n + s) \div 2, 0)]]

\* String.fromCharCode(65 + remainder)
Letters ==
  <<"A", "B", "C", "D", "E", "F", "G", "H", "I", "J", "K", "L", "M",
    "N", "O", "P", "Q", "R", "S", "T", "U", "V", "W", "X", "Y", "Z">>

\* The same loop leaving out the - 1 of `Math.floor(tempX / 26) - 1`.
RECURSIVE ColumnLettersPlain(_, _)
ColumnLettersPlain(tempX, colStr) ==
  LET next == Letters[(tempX % 26) + 1] \o colStr
  IN  IF tempX \div 26 > 0
        THEN ColumnLettersPlain(tempX \div 26, next)
        ELSE next

\* The do ... while loop of generateCellId, ElevationService.ts 343-347.
RECURSIVE ColumnLetters(_, _)
ColumnLetters(tempX, colStr) ==
  LET next == Letters[(tempX % 26) + 1] \o colStr
  IN  IF (tempX \div 26) - 1 >= 0
        THEN ColumnLetters((tempX \div 26) - 1, next)
        ELSE next

\* An id made of the row number alone.
generateCellIdRowOnly(x, y, config) ==
  IF ~config.showLabels THEN "" ELSE ToString(y + 1)

\* ElevationService.ts lines 333-355.
generateCellId(x, y, config) ==
  IF ~config.showLabels THEN ""
  ELSE IF config.labelCharset = "alphanumeric"
    THEN ColumnLetters(x, "") \o ToString(y + 1)
    ELSE ToString(x + 1) \o "," \o ToString(y + 1)

\* cellSizeMeters = gridSize * feetToMeters.  gridSize is counted in the
\* feet that make one distance unit, so the product is gridSize units.
cellSizeMetersOf(size) == size

\* (north - south) / latMeters and (east - west) / lngMeters, as [num, den].
DegreePerMeter(span, meters) ==
  [num |-> span * meters.den, den |-> meters.num]

\* GridService.ts generateSquareGrid, lines 61-111.
GS_generateSquareGrid(b, cellsX, cellsY, cellSizeMeters) ==
  LET latMeters == calculateDistance(b.north, b.west, b.south, b.west)
      lngMeters == calculateDistance(b.north, b.west, b.north, b.east)
      latDeg == DegreePerMeter(b.north - b.south, latMeters)
      lngDeg == DegreePerMeter(b.east - b.west, lngMeters)
      \* x * cellSizeLng and y * cellSizeLat, times GridDen
      stepLng(x) == (GridDen * x * cellSizeMeters * lngDeg.num) \div lngDeg.den
      stepLat(y) == (GridDen * y * cellSizeMeters * latDeg.num) \div latDeg.den
  IN  [k \in 1..(cellsX * cellsY) |->
         LET x == (k - 1) % cellsX
             y == (k - 1) \div cellsX
         IN  SquareCell("square-" \o ToString(x) \o "-" \o ToString(y), x, y,
                        GridDen * b.west + stepLng(x),
                        GridDen * b.west + stepLng(x + 1),
                        GridDen * b.north - stepLat(y),
                        GridDen * b.north - stepLat(y + 1))]

\* ElevationService.ts generateSquareGrid, lines 191-247.  cellSizeLat is
\* gridSizeKm / 111 degrees, handed over in grid units.
CF_generateSquareGrid(b, cellSizeLat, config) ==
  LET avgLat == (b.north + b.south) \div 2
      cellSizeLng == cellSizeLat * InverseCos(avgLat)
      numLat == CeilDiv(b.north - b.south, cellSizeLat)
      numLng == CeilDiv(b.east - b.west, cellSizeLng)
  IN  [k \in 1..(numLat * numLng) |->
         LET j == (k - 1) % numLng
             i == (k - 1) \div numLng
         IN  SquareCell(generateCellId(j, i, config), j, i,
                        GridDen * (b.west + j * cellSizeLng),
                        GridDen * (b.west + (j + 1) * cellSizeLng),
                        GridDen * (b.north - i * cellSizeLat),
                        GridDen * (b.north - (i + 1) * cellSizeLat))]

\* 2 * Math.cos(Math.PI / 3 * k) and Math.sin(Math.PI / 3 * k) / (sqrt(3) / 2)
\* for k = 0..5 (element k + 1).
Cos2 == <<2, 1, -1, -2, -1, 1>>
SinUnit == <<0, 1, 1, 0, -1, -1>>

HexCellOpen(id, col, row, points, centerLng, centerLat, closing) ==
  [id |-> id, col |-> col, row |-> row,
   coordinates |-> points,
   center |-> [lng |-> centerLng, lat |-> centerLat]]

HexCell(id, col, row, points, centerLng, centerLat, closing) ==
  [id |-> id, col |-> col, row |-> row,
   coordinates |-> Append(points, closing),
   center |-> [lng |-> centerLng, lat |-> centerLat]]

rowOffsetNone(row, spacing) == 0

\* const rowOffset = isOddRow ? hexHorizSpacing / 2 : 0 (GridService.ts);
\* const offset = isOddRow ? hexWidthLng / 2 : 0 (ElevationService.ts).
rowOffset(row, spacing) == IF row % 2 = 1 THEN spacing \div 2 ELSE 0

\* GridService.ts generateHexGrid, lines 119-181.
GS_generateHexGrid(b, cellsX, cellsY, cellSizeMeters) ==
  LET latMeters == calculateDistance(b.north, b.west, b.south, b.west)
      lngMeters == calculateDistance(b.north, b.west, b.north, b.east)
      latDeg == DegreePerMeter(b.north - b.south, latMeters)
      lngDeg == DegreePerMeter(b.east - b.west, lngMeters)
      \* hexRadius * lngDegreePerMeter and hexRadius * latDegreePerMeter,
      \* hexRadius = cellSizeMeters / 2, times GridDen
      radiusLng == ((GridDen \div 2) * cellSizeMeters * lngDeg.num)
                     \div lngDeg.den
      radiusLat == ((GridDen \div 2) * cellSizeMeters * latDeg.num)
                     \div latDeg.den
      \* hexHeight = hexRadius * Math.sqrt(3)
      hexHeightLat == Q(0, radiusLat)
      \* hexRadius * 1.5 * lngDegreePerMeter
      hexHorizSpacing == (3 * radiusLng) \div 2
  IN  [n \in 1..(cellsX * cellsY) |->
         LET col == (n - 1) % cellsX
             row == (n - 1) \div cellsX
             centerLng == GridDen * b.west + rowOffset(row, hexHorizSpacing)
                            + col * hexHorizSpacing
             centerLat == QSub(Q(GridDen * b.north, 0),
                               QScale(row, hexHeightLat))
             points ==
               [k \in 1..6 |->
                  [lng |-> centerLng + (radiusLng * Cos2[k]) \div 2,
                   lat |-> QSub(centerLat,
                                Q(0, (radiusLat * SinUnit[k]) \div 2))]]
         IN  HexCell("hex-" \o ToString(col) \o "-" \o ToString(row),
                     col, row, points, centerLng, centerLat, points[1])]

\* Math.ceil(span / (size * sqrt(3) / 2)): the least n with
\* n * size * sqrt(3) >= 2 * span.
CeilOverRowStep(span, size) ==
  CHOOSE n \in 0..(2 * span) :
    /\ 3 * n * n * size * size >= 4 * span * span
    /\ n > 0 => 3 * (n - 1) * (n - 1) * size * size < 4 * span * span

\* ElevationService.ts generateHexGrid, lines 255-322.  size is
\* gridSizeKm / 111 degrees (= 2 * inradius / 111) in grid units;
\* circumradius / 111 is size / sqrt(3).
CF_generateHexGrid(b, size, config) ==
  LET avgLat == (b.north + b.south) \div 2
      \* (inradius * 2) / (111 * cosLat), times GridDen
      hexWidthLng == GridDen * size * InverseCos(avgLat)
      \* circumradius / 111 = size * sqrt(3) / 3, times GridDen
      circumLat == Q(0, (GridDen * size) \div 3)
      \* hexHeightLat * 0.75 = size * sqrt(3) / 2, times GridDen
      rowStep == Q(0, (GridDen * size) \div 2)
      numLat == CeilOverRowStep(b.north - b.south, size) + 1
      numLng == CeilDiv(b.east - b.west, size * InverseCos(avgLat)) + 1
      centerX(i, j) ==
        GridDen * b.west + j * hexWidthLng
          + rowOffset(i, hexWidthLng) + hexWidthLng \div 2
      centerY(i) ==
        QSub(QSub(Q(GridDen * b.north, 0), QScale(i, rowStep)), circumLat)
      kept == SelectSeq(
                [n \in 1..(numLat * numLng) |->
                   [i |-> (n - 1) \div numLng, j |-> (n - 1) % numLng]],
                LAMBDA c :
                  ~(\/ centerX(c.i, c.j) > GridDen * b.east
                    \/ QLess(centerY(c.i), Q(GridDen * b.south, 0))))
  IN  [n \in 1..Len(kept) |->
         LET i == kept[n].i
             j == kept[n].j
             points ==
               [k \in 1..6 |->
                  [lng |-> centerX(i, j) + (hexWidthLng * Cos2[k]) \div 4,
                   \* circumradius * sin(angle) / 111
                   lat |-> QAdd(centerY(i),
                                Q(((GridDen * size) \div 2) * SinUnit[k], 0))]]
         IN  HexCell(generateCellId(j, i, config), j, i, points,
                     centerX(i, j), centerY(i), points[1])]

GridBoundsSamples ==
  {[north |-> lat + h, south |-> lat - h, east |-> w + dx, west |-> w] :
     lat \in {0, SixtyLat}, h \in {3, 5}, w \in {-4}, dx \in {6, 10, 12}}

GridSizeSamples == {2, 3, 4}

GridConfigs ==
  [showLabels : BOOLEAN, labelCharset : {"alphanumeric", "numbers"}]

GridInit ==
  /\ gridBounds \in GridBoundsSamples
  /\ gridType \in {"square", "hex"}
  /\ gridSize \in GridSizeSamples
  /\ gridConfig \in GridConfigs
  /\ gridCall = "none"
  /\ grid = <<>>

GridIdle ==
  /\ gridBounds = [north |-> 3, south |-> -3, east |-> 2, west |-> -4]
  /\ gridType = "square"
  /\ gridSize = 2
  /\ gridConfig = [showLabels |-> TRUE, labelCharset |-> "alphanumeric"]
  /\ gridCall = "none"
  /\ grid = <<>>

\* GridService.ts generateGrid, lines 25-52.
generateGrid ==
  /\ UNCHANGED nonGridVars
  /\ gridCall = "none"
  /\ gridCall' = "GridService.ts"
  /\ LET b == gridBounds
         widthMeters == calculateDistance(b.north, b.west, b.north, b.east)
         heightMeters == calculateDistance(b.north, b.west, b.south, b.west)
         cellSizeMeters == cellSizeMetersOf(gridSize)
         cellsX == CeilDiv(widthMeters.num, widthMeters.den * cellSizeMeters)
         cellsY == CeilDiv(heightMeters.num, heightMeters.den * cellSizeMeters)
     IN  grid' = IF gridType = "hex"
                   THEN GS_generateHexGrid(b, cellsX, cellsY, cellSizeMeters)
                   ELSE GS_generateSquareGrid(b, cellsX, cellsY,
                                              cellSizeMeters)
  /\ UNCHANGED <<gridBounds, gridType, gridSize, gridConfig>>

\* ElevationService.ts generateGrid(bounds, config), lines 179-183.
generateGridConfig ==
  /\ UNCHANGED nonGridVars
  /\ gridCall = "none"
  /\ gridCall' = "ElevationService.ts"
  /\ grid' = IF gridType = "hex"
               THEN CF_generateHexGrid(gridBounds, gridSize, gridConfig)
               ELSE CF_generateSquareGrid(gridBounds, gridSize, gridConfig)
  /\ UNCHANGED <<gridBounds, gridType, gridSize, gridConfig>>

\* generateCellId called on its own.
NoId == "none"

ColumnSamples == 0..MaxColumn

IdInit ==
  /\ cellX \in ColumnSamples
  /\ cellY \in 0..2
  /\ cellId = NoId

IdIdle ==
  /\ cellX = 0
  /\ cellY = 0
  /\ cellId = NoId

callGenerateCellId ==
  /\ UNCHANGED nonIdVars
  /\ cellId = NoId
  /\ cellId' = generateCellId(cellX, cellY, gridConfig)
  /\ UNCHANGED <<cellX, cellY, gridConfig>>

(***************************************************************************)
(* RenderService (src/src/services/GridService.ts lines 250-658) and the   *)
(* drawing of ExportService.exportMap (ExportService.ts lines 333-525).    *)
(* Longitudes are counted in 1/111000 degree (one metre on the equator),   *)
(* latitudes in the units of the grid model.  A pixel coordinate is a      *)
(* fraction in lowest terms.  `ops` lists the calls made on the 2D         *)
(* context, each with the routine that made it.                            *)
(***************************************************************************)
RECURSIVE GCD(_, _)
GCD(a, b) == IF b = 0 THEN a ELSE GCD(b, a % b)

\* n / d, d > 0, in lowest terms.
Rat(n, d) ==
  LET g == GCD(Abs(n), d)
  IN  [num |-> n \div g, den |-> d \div g]

RatAdd(a, b) == Rat(a.num * b.den + b.num * a.den, a.den * b.den)

RatLeq(a, b) == a.num * b.den <= b.num * a.den

\* The same with the origin at the south edge.
scaleYUnflipped(b, height, y) ==
  Rat((y - b.south) * height, b.north - b.south)

\* GridService.ts lines 357-359.
scaleX(b, width, x) == Rat((x - b.west) * width, b.east - b.west)

\* GridService.ts lines 361-363.
scaleY(b, height, y) == Rat((b.north - y) * height, b.north - b.south)

\* One call on the context: the routine that made it, the method, its
\* numeric arguments and its text argument.
CtxCall(by, op, args, text) ==
  [by |-> by, op |-> op, args |-> args, text |-> text]

RECURSIVE Flatten(_)
Flatten(ss) == IF ss = <<>> THEN <<>> ELSE Head(ss) \o Flatten(Tail(ss))

\* beginPath, moveTo the first pixel, lineTo the others, stroke.
RingCalls(by, pixels) ==
  <<CtxCall(by, "beginPath", <<>>, "")>>
    \o [k \in 1..Len(pixels) |->
          CtxCall(by, IF k = 1 THEN "moveTo" ELSE "lineTo", pixels[k], "")]
    \o <<CtxCall(by, "stroke", <<>>, "")>>

\* The pixels of a ring under scaleX and scaleY.
Scale(b, width, height, ring) ==
  [k \in 1..Len(ring) |->
     <<scaleX(b, width, ring[k].x), scaleY(b, height, ring[k].y)>>]

\* The first ring of greatest length (GridService.ts lines 447-456).
LongestRing(rings) ==
  LET best == CHOOSE k \in 1..Len(rings) :
                /\ \A j \in 1..Len(rings) : Len(rings[j]) <= Len(rings[k])
                /\ \A j \in 1..(k - 1) : Len(rings[j]) < Len(rings[k])
  IN  rings[best]

\* GridService.ts lines 430-483.  The white rectangle behind a label is
\* placed around the label point by the measured text width; the model
\* records the label point.
addContourLabels(b, width, height, contour) ==
  IF Len(contour.path) > 0 /\ Len(contour.path[1]) > 0
    THEN LET longestRing == LongestRing(contour.path[1])
             labelCount == Max2(1, Len(longestRing) \div 100)
             labelInterval == Len(longestRing) \div (labelCount + 1)
         IN  IF Len(longestRing) > 0
               THEN Flatten(
                      [i \in 1..labelCount |->
                         IF i * labelInterval < Len(longestRing)
                           THEN LET point == longestRing[i * labelInterval + 1]
                                    x == scaleX(b, width, point.x)
                                    y == scaleY(b, height, point.y)
                                IN  <<CtxCall("addContourLabels", "fillRect",
                                              <<x, y>>, ""),
                                      CtxCall("addContourLabels", "fillText",
                                              <<x, y>>,
                                              ToString(contour.level))>>
                           ELSE <<>>])
               ELSE <<>>
    ELSE <<>>

\* GridService.ts lines 385-422.
drawContours(b, width, height, lines, options) ==
  Flatten(
    [n \in 1..Len(lines) |->
       LET contour == lines[n]
       IN  Flatten(
             [p \in 1..Len(contour.path) |->
                Flatten(
                  [r \in 1..Len(contour.path[p]) |->
                     RingCalls("drawContours",
                               Scale(b, width, height,
                                     contour.path[p][r]))])])
             \o (IF /\ options.showContourLabels
                    /\ contour.isMajor
                    /\ Len(contour.path) > 0
                   THEN addContourLabels(b, width, height, contour)
                   ELSE <<>>)])

\* GridService.ts lines 491-530.
drawGrid(b, width, height, cells, options) ==
  Flatten(
    [n \in 1..Len(cells) |->
       LET cell == cells[n]
       IN  RingCalls("drawGrid", Scale(b, width, height, cell.points))
             \o (IF options.showGridLabels /\ cell.id # ""
                   THEN <<CtxCall("drawGrid", "fillText",
                                  <<scaleX(b, width, cell.center.x),
                                    scaleY(b, height, cell.center.y)>>,
                                  cell.id)>>
                   ELSE <<>>)])

\* scaleBarKm of drawScaleBar in metres (GridService.ts lines 553-564);
\* mapWidthKm is span / (1000 * inverseCos).
scaleBarMeters(span, inverseCos) ==
  IF span < 1000 * inverseCos THEN 100
  ELSE IF span < 5000 * inverseCos THEN 1000
  ELSE IF span < 50000 * inverseCos THEN 5000
  ELSE IF span < 100000 * inverseCos THEN 10000
  ELSE 50000

\* GridService.ts lines 538-596.
drawScaleBar(b, width, height) ==
  LET avgLat == (b.north + b.south) \div 2
      span == b.east - b.west
      meters == scaleBarMeters(span, InverseCos(avgLat))
      \* (scaleBarKm / mapWidthKm) * width
      scaleBarWidth == Rat(meters * InverseCos(avgLat) * width, span)
      barX == Rat(20, 1)
      barY == Rat(height - 20, 1)
      \* `${scaleBarKm * 1000} m` below 1 km, `${scaleBarKm} km` from there
      label == IF meters < 1000 THEN ToString(meters) \o " m"
                                ELSE ToString(meters \div 1000) \o " km"
  IN  <<CtxCall("drawScaleBar", "fillRect",
                <<barX, barY, scaleBarWidth, Rat(5, 1)>>, ""),
        CtxCall("drawScaleBar", "fillRect",
                <<barX, Rat(height - 25, 1), Rat(1, 1), Rat(15, 1)>>, ""),
        CtxCall("drawScaleBar", "fillRect",
                <<RatAdd(barX, scaleBarWidth), Rat(height - 25, 1),
                  Rat(1, 1), Rat(15, 1)>>, ""),
        CtxCall("drawScaleBar", "fillText",
                <<RatAdd(barX, Rat(scaleBarWidth.num, 2 * scaleBarWidth.den)),
                  Rat(height - 10, 1)>>, label)>>

\* The part_007 lines in the shape of ContourService.ts lines 15-18.
ElevationLines(lines) ==
  [n \in 1..Len(lines) |->
     [elevation |-> lines[n].level, coordinates |-> Flatten(lines[n].path)]]

\* The cells in the shape of GridService.ts lines 10-14.
CoordinateCells(cells) ==
  [n \in 1..Len(cells) |->
     [id |-> cells[n].id, coordinates |-> cells[n].points,
      center |-> cells[n].center]]

\* Math.round(n / d) for n >= 0, d > 0.
RoundDiv(n, d) == (2 * n + d) \div (2 * d)

\* The drawing of ExportService.exportMap, ExportService.ts lines 377-511.
\* The scale bar text is the rounded length of 100 pixels of the map area,
\* at the latitude factor of the model.
exportMapCalls(b, canvasWidth, canvasHeight, lines, cells, options) ==
  LET mapAreaWidth == canvasWidth - 100
      mapAreaHeight == canvasHeight - 200
      span == b.east - b.west
      geoToCanvasX(lng) ==
        RatAdd(Rat(50, 1), Rat((lng - b.west) * mapAreaWidth, span))
      geoToCanvasY(lat) ==
        RatAdd(Rat(150, 1),
               Rat((b.north - lat) * mapAreaHeight, b.north - b.south))
      page ==
        <<CtxCall("exportMap.page", "fillRect",
                  <<Rat(0, 1), Rat(0, 1), Rat(canvasWidth, 1),
                    Rat(canvasHeight, 1)>>, ""),
          CtxCall("exportMap.page", "strokeRect",
                  <<Rat(10, 1), Rat(10, 1), Rat(canvasWidth - 20, 1),
                    Rat(canvasHeight - 20, 1)>>, ""),
          CtxCall("exportMap.page", "fillText",
                  <<Rat(canvasWidth, 2), Rat(50, 1)>>, "Terrain Map")>>
      metadata ==
        IF options.includeMetadata
          THEN <<CtxCall("exportMap.page", "fillText",
                         <<Rat(canvasWidth, 2), Rat(80, 1)>>, "North, South"),
                 CtxCall("exportMap.page", "fillText",
                         <<Rat(canvasWidth, 2), Rat(100, 1)>>, "East, West"),
                 CtxCall("exportMap.page", "fillText",
                         <<Rat(canvasWidth, 2), Rat(120, 1)>>, "Generated on")>>
          ELSE <<>>
      mapArea ==
        <<CtxCall("exportMap.mapArea", "fillRect",
                  <<Rat(50, 1), Rat(150, 1), Rat(mapAreaWidth, 1),
                    Rat(mapAreaHeight, 1)>>, ""),
          CtxCall("exportMap.mapArea", "strokeRect",
                  <<Rat(50, 1), Rat(150, 1), Rat(mapAreaWidth, 1),
                    Rat(mapAreaHeight, 1)>>, "")>>
      geoToCanvas(ring) ==
        [k \in 1..Len(ring) |->
           <<geoToCanvasX(ring[k].x), geoToCanvasY(ring[k].y)>>]
      gridCalls ==
        Flatten([n \in 1..Len(cells) |->
                   RingCalls("exportMap.grid",
                             geoToCanvas(cells[n].coordinates))])
      contourCalls ==
        Flatten(
          [n \in 1..Len(lines) |->
             LET contour == lines[n]
                 rings == contour.coordinates
             IN  Flatten([r \in 1..Len(rings) |->
                            RingCalls("exportMap.contours",
                                      geoToCanvas(rings[r]))])
                   \o (IF Len(rings) > 0 /\ Len(rings[Len(rings)]) > 0
                         THEN LET lastRing == rings[Len(rings)]
                                  point == lastRing[(Len(lastRing) \div 2) + 1]
                              IN  <<CtxCall("exportMap.contours", "fillText",
                                            <<geoToCanvasX(point.x),
                                              geoToCanvasY(point.y)>>,
                                            ToString(contour.elevation)
                                              \o "m")>>
                         ELSE <<>>)])
      scaleBarX == 50 + 20
      scaleBarY == 150 + mapAreaHeight - 30
      avgLat == (b.north + b.south) \div 2
      distanceInMeters ==
        RoundDiv(span * 100, mapAreaWidth * InverseCos(avgLat))
      scaleBar ==
        <<CtxCall("exportMap.scaleBar", "beginPath", <<>>, ""),
          CtxCall("exportMap.scaleBar", "moveTo",
                  <<Rat(scaleBarX, 1), Rat(scaleBarY, 1)>>, ""),
          CtxCall("exportMap.scaleBar", "lineTo",
                  <<Rat(scaleBarX + 100, 1), Rat(scaleBarY, 1)>>, ""),
          CtxCall("exportMap.scaleBar", "stroke", <<>>, ""),
          CtxCall("exportMap.scaleBar", "fillText",
                  <<Rat(scaleBarX + 50, 1), Rat(scaleBarY - 5, 1)>>,
                  ToString(distanceInMeters) \o " meters")>>
  IN  page \o metadata \o mapArea \o gridCalls \o contourCalls \o scaleBar

\* The point at column i of 0..4, row j of 0..2 of the lattice over the
\* bounds.
LatticePoint(b, i, j) ==
  [x |-> b.west + i * ((b.east - b.west) \div 4),
   y |-> b.north - j * ((b.north - b.south) \div 2)]

OuterRing(b) ==
  <<LatticePoint(b, 0, 0), LatticePoint(b, 4, 0), LatticePoint(b, 4, 2),
    LatticePoint(b, 0, 2), LatticePoint(b, 0, 0)>>

InnerRing(b) ==
  <<LatticePoint(b, 2, 0), LatticePoint(b, 4, 1), LatticePoint(b, 2, 2),
    LatticePoint(b, 2, 0)>>

\* Lines as part_007 returns them for interval 10 and majorInterval 5, and
\* the line of the worker of generateContoursAsync, whose path is empty.
MajorLine(b) ==
  [level |-> 50, path |-> << <<OuterRing(b), InnerRing(b)>> >>,
   isMajor |-> TRUE]

MinorLine(b) ==
  [level |-> 10, path |-> << <<InnerRing(b)>> >>, isMajor |-> FALSE]

StubLine == [level |-> 0, path |-> <<>>, isMajor |-> TRUE]

ContourListSamples(b) ==
  {<<>>, <<MajorLine(b)>>, <<MinorLine(b), MajorLine(b)>>,
   <<MajorLine(b), MinorLine(b)>>, <<StubLine, MinorLine(b)>>}

\* Square cells as the config revision returns them: the whole bounds, or
\* its west and east halves.
RenderCell(b, id, i) ==
  [id |-> id,
   points |-> <<LatticePoint(b, i, 0), LatticePoint(b, i + 2, 0),
                LatticePoint(b, i + 2, 2), LatticePoint(b, i, 2),
                LatticePoint(b, i, 0)>>,
   center |-> LatticePoint(b, i + 1, 1)]

WholeCell(b, id) ==
  [id |-> id, points |-> OuterRing(b), center |-> LatticePoint(b, 2, 1)]

GridListSamples(b) ==
  {<<>>, <<WholeCell(b, "A1")>>,
   <<RenderCell(b, "A1", 0), RenderCell(b, "B1", 2)>>,
   <<RenderCell(b, "", 0), RenderCell(b, "", 2)>>}

SpanSamplesMeters == {48, 500, 3000, 20000, 60000, 200000}

RenderBoundsSamples ==
  {[north |-> lat + 3, south |-> lat - 3, west |-> -20, east |-> span - 20] :
     lat \in {0, SixtyLat}, span \in SpanSamplesMeters}

\* 800 x 600 is defaultOptions; 612 x 792 is letter paper at 72 dpi.
CanvasSizeSamples == {<<800, 600>>, <<612, 792>>}

RenderOptionSamples ==
  [showContourLabels : BOOLEAN, showGridLabels : BOOLEAN,
   showScaleBar : BOOLEAN, includeMetadata : BOOLEAN]

RenderInit ==
  /\ renderBounds \in RenderBoundsSamples
  /\ canvasSize \in CanvasSizeSamples
  /\ renderOptions \in RenderOptionSamples
  /\ renderContours \in ContourListSamples(renderBounds)
  /\ renderGrid \in GridListSamples(renderBounds)
  /\ renderCall = "none"
  /\ ops = <<>>

RenderIdle ==
  /\ renderBounds = [north |-> 3, south |-> -3, west |-> -20, east |-> 28]
  /\ canvasSize = <<800, 600>>
  /\ renderOptions = [showContourLabels |-> TRUE, showGridLabels |-> TRUE,
                      showScaleBar |-> TRUE, includeMetadata |-> TRUE]
  /\ renderContours = <<>>
  /\ renderGrid = <<>>
  /\ renderCall = "none"
  /\ ops = <<>>

\* GridService.ts lines 303-339.
renderToCanvas ==
  /\ UNCHANGED nonRenderVars
  /\ renderCall = "none"
  /\ renderCall' = "RenderService"
  /\ LET width == canvasSize[1]
         height == canvasSize[2]
     IN  ops' =
           <<CtxCall("renderToCanvas", "fillRect",
                     <<Rat(0, 1), Rat(0, 1), Rat(width, 1), Rat(height, 1)>>,
                     "")>>
             \o drawContours(renderBounds, width, height, renderContours,
                             renderOptions)
             \o drawGrid(renderBounds, width, height, renderGrid,
                         renderOptions)
             \o (IF renderOptions.showScaleBar
                   THEN drawScaleBar(renderBounds, width, height)
                   ELSE <<>>)
  /\ UNCHANGED <<renderBounds, canvasSize, renderOptions, renderContours,
                 renderGrid>>

\* ExportService.ts exportMap, lines 333-525, up to the last call on the
\* context.
exportMapDraw ==
  /\ UNCHANGED nonRenderVars
  /\ renderCall = "none"
  /\ renderCall' = "ExportService"
  /\ ops' = exportMapCalls(renderBounds, canvasSize[1], canvasSize[2],
                           ElevationLines(renderContours),
                           CoordinateCells(renderGrid), renderOptions)
  /\ UNCHANGED <<renderBounds, canvasSize, renderOptions, renderContours,
                 renderGrid>>

(***************************************************************************)
(* ExportService: the three revisions of exportMap, up to the size of the  *)
(* canvas.  ExportService.ts lines 39-267 keep millimetres (tenths in the  *)
(* model), ExportService.ts lines 333-373 inches (hundredths), part_006    *)
(* lines 40-98 whole millimetres.  A page is kept in micrometres.          *)
(***************************************************************************)
NoPage == [width |-> 0, height |-> 0]

NoCanvas == <<0, 0>>

\* The promise of exportMap rejected before a canvas had a size.
Threw == <<-1, -1>>

\* Tenths of a millimetre, ExportService.ts lines 235-258.  A case the
\* switch does not name falls to `default`.
PaperTenths(options) ==
  CASE options.paperSize = "a4" -> [width |-> 2100, height |-> 2970]
    [] options.paperSize = "letter" -> [width |-> 2159, height |-> 2794]
    [] options.paperSize = "a3" -> [width |-> 2970, height |-> 4200]
    [] options.paperSize = "tabloid" -> [width |-> 2794, height |-> 4318]
    [] options.paperSize = "custom" ->
         [width |-> IF options.customWidth # 0
                      THEN 10 * options.customWidth ELSE 2100,
          height |-> IF options.customHeight # 0
                       THEN 10 * options.customHeight ELSE 2970]
    [] OTHER -> [width |-> 2100, height |-> 2970]

\* ExportService.ts lines 230-267.
calculateDimensions(options) ==
  LET d == PaperTenths(options)
  IN  IF options.orientation = "landscape" /\ d.width < d.height
        THEN [width |-> d.height, height |-> d.width]
        ELSE d

\* GridService.ts lines 632-655: options.width and options.height times
\* dpi / 72, 800 and 600 standing in for a 0.
createHighResolutionCanvas(width, height, dpiValue) ==
  <<RoundDiv((IF width # 0 THEN width ELSE 800) * dpiValue, 72),
    RoundDiv((IF height # 0 THEN height ELSE 600) * dpiValue, 72)>>

\* ExportService.ts lines 69-102.
exportToPNG(options) ==
  LET d == calculateDimensions(options)
  IN  createHighResolutionCanvas(RoundDiv(d.width * options.dpi, 254),
                                 RoundDiv(d.height * options.dpi, 254),
                                 options.dpi)

\* ExportService.ts lines 113-180: the map is drawn 10 mm inside the page.
exportToPDF(options) ==
  LET d == calculateDimensions(options)
  IN  createHighResolutionCanvas(RoundDiv((d.width - 200) * 72, 254),
                                 RoundDiv((d.height - 200) * 72, 254), 72)

\* ExportService.ts lines 39-59.
ES_exportMap ==
  /\ UNCHANGED nonExportVars
  /\ exportCall = "none"
  /\ exportCall' = "ExportService.ts:39"
  /\ LET d == calculateDimensions(exportOptions)
     IN  pageSize' = [width |-> 100 * d.width, height |-> 100 * d.height]
  /\ exportCanvas' = IF exportOptions.format = "pdf"
                 THEN exportToPDF(exportOptions)
                 ELSE exportToPNG(exportOptions)
  /\ UNCHANGED exportOptions

\* Hundredths of an inch, ExportService.ts lines 353-357.
PaperInches ==
  [a4 |-> [width |-> 827, height |-> 1169],
   letter |-> [width |-> 850, height |-> 1100],
   legal |-> [width |-> 850, height |-> 1400]]

\* ExportService.ts lines 333-373.  paperSizes[paperSize] is undefined for
\* a size outside the table and reading its width throws.
ES2_exportMap ==
  /\ UNCHANGED nonExportVars
  /\ exportCall = "none"
  /\ exportCall' = "ExportService.ts:333"
  /\ IF exportOptions.paperSize \in {"a4", "letter", "legal"}
       THEN LET d == PaperInches[exportOptions.paperSize]
                landscape == exportOptions.orientation = "landscape"
                paperWidth == IF landscape THEN d.height ELSE d.width
                paperHeight == IF landscape THEN d.width ELSE d.height
            IN  /\ pageSize' = [width |-> 254 * paperWidth,
                            height |-> 254 * paperHeight]
                /\ exportCanvas' = <<RoundDiv(paperWidth * exportOptions.dpi, 100),
                               RoundDiv(paperHeight * exportOptions.dpi, 100)>>
       ELSE /\ pageSize' = NoPage
            /\ exportCanvas' = Threw
  /\ UNCHANGED exportOptions

\* Millimetres, part_006 lines 57-63.
PaperMillimetres ==
  [a4 |-> [width |-> 210, height |-> 297],
   letter |-> [width |-> 216, height |-> 279],
   legal |-> [width |-> 216, height |-> 356],
   a3 |-> [width |-> 297, height |-> 420],
   tabloid |-> [width |-> 279, height |-> 432]]

\* Math.round(mm * 0.0393701 * dpi): with n = mm * dpi the product is
\* n * 393701 / 10^7, taken in two parts to stay inside 32 bits.
RoundInches(mm, dpiValue) ==
  LET n == mm * dpiValue
      thousandths == n * 39 + (n * 3701) \div 10000
  IN  (thousandths + 500) \div 1000

\* part_006 lines 40-98.
P6_exportMap ==
  /\ UNCHANGED nonExportVars
  /\ exportCall = "none"
  /\ exportCall' = "part_006"
  /\ LET d == IF /\ exportOptions.paperSize = "custom"
                 /\ exportOptions.customWidth # 0
                 /\ exportOptions.customHeight # 0
                THEN [width |-> exportOptions.customWidth,
                      height |-> exportOptions.customHeight]
              ELSE IF exportOptions.paperSize \in DOMAIN PaperMillimetres
                THEN PaperMillimetres[exportOptions.paperSize]
                ELSE PaperMillimetres["a4"]
         landscape == exportOptions.orientation = "landscape"
         paperWidth == IF landscape THEN d.height ELSE d.width
         paperHeight == IF landscape THEN d.width ELSE d.height
     IN  /\ pageSize' = [width |-> 1000 * paperWidth,
                     height |-> 1000 * paperHeight]
         /\ exportCanvas' = <<RoundInches(paperWidth, exportOptions.dpi),
                        RoundInches(paperHeight, exportOptions.dpi)>>
  /\ UNCHANGED exportOptions

PaperSizeSamples == {"a4", "letter", "legal", "a3", "tabloid", "custom"}

DpiSamples == {72, 96, 150, 300}

\* customWidth and customHeight in millimetres, 0 when absent.
CustomSizeSamples == {<<0, 0>>, <<300, 200>>, <<100, 150>>}

ExportOptionSamples ==
  {[format |-> f, paperSize |-> p, orientation |-> o, dpi |-> d,
    customWidth |-> c[1], customHeight |-> c[2]] :
     f \in Formats, p \in PaperSizeSamples,
     o \in {"portrait", "landscape"}, d \in DpiSamples,
     c \in CustomSizeSamples}

ExportInit ==
  /\ exportOptions \in ExportOptionSamples
  /\ exportOptions.paperSize # "custom" => exportOptions.customWidth = 0
  /\ exportCall = "none"
  /\ pageSize = NoPage
  /\ exportCanvas = NoCanvas

\* defaultOptions, ExportService.ts lines 21-28, with the format of App.
ExportIdle ==
  /\ exportOptions = [format |-> "png", paperSize |-> "a4",
                      orientation |-> "landscape", dpi |-> 300,
                      customWidth |-> 0, customHeight |-> 0]
  /\ exportCall = "none"
  /\ pageSize = NoPage
  /\ exportCanvas = NoCanvas

(***************************************************************************)
(* Selection: the Leaflet.Draw events of the map and the App's handler.    *)
(* Latitudes and longitudes are whole degrees.  NoBounds stands for null.  *)
(***************************************************************************)
NoBounds == [north |-> 99, south |-> 99, east |-> 99, west |-> 99]

\* new L.LatLngBounds([south, west], [north, east]): the corners are
\* ordered by the constructor.
LatLngBounds(lat1, lng1, lat2, lng2) ==
  [north |-> Max2(lat1, lat2), south |-> Min2(lat1, lat2),
   east |-> Max2(lng1, lng2), west |-> Min2(lng1, lng2)]

\* L.LatLngBounds.isValid: both corners are set.
isValid(b) == b # NoBounds

\* part_003 handleAreaSelected: the value handed to setSelectedArea.
handleAreaSelected(b) ==
  IF isValid(b) /\ b.north # 0 THEN b ELSE NoBounds

DrawEvent(kind, b) == [kind |-> kind, bounds |-> b]

\* App.tsx: the L.Draw.Event.CREATED handler, the only draw event the App
\* listens to; its edit toolbar is bound to a feature group of its own that
\* never holds a layer.
App_onCreated(b) ==
  /\ UNCHANGED nonSelectionVars
  /\ mapRevision = "App.tsx"
  /\ drawnLayer' = b
  /\ drawEvent' = DrawEvent("created", b)
  /\ selection' = b
  /\ UNCHANGED mapRevision

\* TerrainMap.tsx handleCreated, then onAreaSelected.
handleCreated(b) ==
  /\ UNCHANGED nonSelectionVars
  /\ mapRevision = "TerrainMap.tsx"
  /\ drawnLayer' = b
  /\ drawEvent' = DrawEvent("created", b)
  /\ selection' = handleAreaSelected(b)
  /\ UNCHANGED mapRevision

\* TerrainMap.tsx handleEdited: the drawn rectangle was reshaped to b.
handleEdited(b) ==
  /\ UNCHANGED nonSelectionVars
  /\ mapRevision = "TerrainMap.tsx"
  /\ drawnLayer # NoBounds
  /\ drawnLayer' = b
  /\ drawEvent' = DrawEvent("edited", b)
  /\ selection' = handleAreaSelected(b)
  /\ UNCHANGED mapRevision

\* TerrainMap.tsx handleDeleted.
handleDeleted ==
  /\ UNCHANGED nonSelectionVars
  /\ mapRevision = "TerrainMap.tsx"
  /\ drawnLayer # NoBounds
  /\ drawnLayer' = NoBounds
  /\ drawEvent' = DrawEvent("deleted", NoBounds)
  /\ selection' = handleAreaSelected(LatLngBounds(0, 0, 0, 0))
  /\ UNCHANGED mapRevision

MaxDegree == 2
Degrees == (0 - MaxDegree)..MaxDegree

\* The rectangles a user can draw: north > south and east > west.
Rectangles ==
  {b \in [north : Degrees, south : Degrees, east : Degrees, west : Degrees] :
     b.north > b.south /\ b.east > b.west}

SelectionInit ==
  /\ mapRevision \in {"App.tsx", "TerrainMap.tsx"}
  /\ drawnLayer = NoBounds
  /\ drawEvent = DrawEvent("none", NoBounds)
  /\ selection = NoBounds

SelectionIdle ==
  /\ mapRevision = "App.tsx"
  /\ drawnLayer = NoBounds
  /\ drawEvent = DrawEvent("none", NoBounds)
  /\ selection = NoBounds

(***************************************************************************)
(* simplifyContours, part_007 lines 191-219.  A point is <<x, y>> on an    *)
(* integer lattice; a contour line is [level, isMajor, path], its path a   *)
(* list of polygons, a polygon a list of rings.                            *)
(***************************************************************************)
NotSimplified == <<[level |-> -1, isMajor |-> FALSE, path |-> <<>>]>>

SquaredDistance(p, q) ==
  (p[1] - q[1]) * (p[1] - q[1]) + (p[2] - q[2]) * (p[2] - q[2])

\* Math.sqrt(dx^2 + dy^2) > tolerance, for a tolerance >= 0.
FartherThan(p, q, tol) == SquaredDistance(p, q) > tol * tol

\* The for loop over the points of a ring, from point k on; lastPoint is the
\* last point pushed.
RECURSIVE reduceRing(_, _, _, _)
reduceRing(ring, k, simplifiedRing, tol) ==
  IF k > Len(ring) THEN simplifiedRing
  ELSE IF \/ simplifiedRing = <<>>
          \/ FartherThan(ring[k], simplifiedRing[Len(simplifiedRing)], tol)
    THEN reduceRing(ring, k + 1, Append(simplifiedRing, ring[k]), tol)
    ELSE reduceRing(ring, k + 1, simplifiedRing, tol)

simplifyContours(lines, tol) ==
  [c \in 1..Len(lines) |->
     [level |-> lines[c].level,
      isMajor |-> lines[c].isMajor,
      path |-> [p \in 1..Len(lines[c].path) |->
                  [r \in 1..Len(lines[c].path[p]) |->
                     reduceRing(lines[c].path[p][r], 1, <<>>, tol)]]]]

callSimplifyContours ==
  /\ UNCHANGED nonSimplifyVars
  /\ simplifyResult = NotSimplified
  /\ simplifyResult' = simplifyContours(simplifyArg, simplifyTolerance)
  /\ UNCHANGED <<simplifyArg, simplifyTolerance>>

MaxRingLen == 4

LatticeSamples == {<<0, 0>>, <<1, 0>>, <<0, 2>>, <<2, 2>>}

RingSamples ==
  UNION {[1..n -> LatticeSamples] : n \in 0..MaxRingLen}

ToleranceSamples == {0, 1, 2}

SimplifyInit ==
  /\ \E ring \in RingSamples, major \in BOOLEAN :
       simplifyArg = <<[level |-> IF major THEN 50 ELSE 10,
                        isMajor |-> major,
                        path |-> <<<<ring, <<<<0, 0>>, <<0, 2>>, <<0, 0>>>>>>>>]>>
  /\ simplifyTolerance \in ToleranceSamples
  /\ simplifyResult = NotSimplified

SimplifyIdle ==
  /\ simplifyArg = <<>>
  /\ simplifyTolerance = 0
  /\ simplifyResult = NotSimplified

(***************************************************************************)
(* The stages generateContours and generateGrid of App.tsx (lines 107-157),*)
(* run loop step by loop step: the threshold loop of ContourService.ts     *)
(* (lines 31-37) and the cell loops of ElevationService.ts generateSquare- *)
(* Grid (lines 191-247).  Numbers are integers, Infinity, -Infinity or NaN.*)
(* The elevations of the raster and the spans of the selection are fixed;  *)
(* the spans are counted in the degrees one unit of grid size stands for.  *)
(***************************************************************************)
NaN == Infinity + Infinity

IsFinite(a) == a # NaN /\ a # Infinity /\ a # 0 - Infinity

\* a <= b and a < b: false when either side is NaN.
JsLeq(a, b) == a # NaN /\ b # NaN /\ a <= b
JsLess(a, b) == a # NaN /\ b # NaN /\ a < b

\* Math.floor(a / b) and Math.ceil(a / b) for finite a and b: a / 0 is
\* Infinity, -Infinity or NaN.
JsQuotient(a, b, up) ==
  IF b = 0
    THEN IF a = 0 THEN NaN ELSE IF a > 0 THEN Infinity ELSE 0 - Infinity
    ELSE LET n == IF b > 0 THEN a ELSE 0 - a
             d == IF b > 0 THEN b ELSE 0 - b
         IN  IF up THEN CeilDiv(n, d) ELSE FloorDiv(n, d)

\* a * b: Infinity * 0 is NaN.
JsTimes(a, b) ==
  IF a = NaN \/ b = NaN THEN NaN
  ELSE IF ~IsFinite(a) \/ ~IsFinite(b)
    THEN IF a = 0 \/ b = 0 THEN NaN
         ELSE IF (a > 0) = (b > 0) THEN Infinity ELSE 0 - Infinity
  ELSE a * b

\* a + b for a finite b.
JsPlus(a, b) == IF IsFinite(a) THEN a + b ELSE a

MaxArrayLength == 12

StageElevations == [minElevation |-> -7, maxElevation |-> 23]
StageSpans == [lat |-> 6, lng |-> 4]

\* const baseElevation = Math.floor(minElevation / interval) * interval
baseElevation(step) ==
  JsTimes(JsQuotient(StageElevations.minElevation, step, FALSE), step)

\* Math.ceil((north - south) / cellSizeLat), Math.ceil((east - west) /
\* cellSizeLng)
numLatOf(size) == JsQuotient(StageSpans.lat, size, TRUE)
numLngOf(size) == JsQuotient(StageSpans.lng, size, TRUE)

\* onChange of the two number inputs: setContourInterval(Number(value)),
\* setGridSize(Number(value)).
setContourInterval(v) ==
  /\ UNCHANGED nonStageVars
  /\ stagePc = "idle"
  /\ contourInterval' = v
  /\ UNCHANGED <<gridSizeInput, stagePc, stageLoading, stageOutcome, loopI,
                 loopJ, pushed>>

setGridSize(v) ==
  /\ UNCHANGED nonStageVars
  /\ stagePc = "idle"
  /\ gridSizeInput' = v
  /\ UNCHANGED <<contourInterval, stagePc, stageLoading, stageOutcome, loopI,
                 loopJ, pushed>>

\* generateContours up to the head of the threshold loop.
startGenerateContours ==
  /\ UNCHANGED nonStageVars
  /\ stagePc = "idle"
  /\ stagePc' = "thresholds"
  /\ stageLoading' = TRUE
  /\ stageOutcome' = "none"
  /\ loopI' = baseElevation(contourInterval)
  /\ loopJ' = 0
  /\ pushed' = 0
  /\ UNCHANGED <<contourInterval, gridSizeInput>>

\* for (let i = baseElevation; i <= maxElevation; i += interval)
\*   thresholds.push(i)
thresholdLoopStep ==
  /\ UNCHANGED nonStageVars
  /\ stagePc = "thresholds"
  /\ JsLeq(loopI, StageElevations.maxElevation)
  /\ pushed < MaxArrayLength
  /\ pushed' = pushed + 1
  /\ loopI' = JsPlus(loopI, contourInterval)
  /\ UNCHANGED <<contourInterval, gridSizeInput, stagePc, stageLoading,
                 stageOutcome, loopJ>>

\* The loop is left; the contouring over the thresholds is bounded by the
\* raster; setContourData and the finally follow.
thresholdLoopExit ==
  /\ UNCHANGED nonStageVars
  /\ stagePc = "thresholds"
  /\ ~JsLeq(loopI, StageElevations.maxElevation)
  /\ stagePc' = "idle"
  /\ stageLoading' = FALSE
  /\ stageOutcome' = "result"
  /\ UNCHANGED <<contourInterval, gridSizeInput, loopI, loopJ, pushed>>

\* generateGrid up to the head of the row loop.
startGenerateGrid ==
  /\ UNCHANGED nonStageVars
  /\ stagePc = "idle"
  /\ stagePc' = "cells"
  /\ stageLoading' = TRUE
  /\ stageOutcome' = "none"
  /\ loopI' = 0
  /\ loopJ' = 0
  /\ pushed' = 0
  /\ UNCHANGED <<contourInterval, gridSizeInput>>

\* for (let j = 0; j < numLng; j++) { ... cells.push(cell) }
cellLoopStep ==
  /\ UNCHANGED nonStageVars
  /\ stagePc = "cells"
  /\ JsLess(loopI, numLatOf(gridSizeInput))
  /\ JsLess(loopJ, numLngOf(gridSizeInput))
  /\ pushed < MaxArrayLength
  /\ pushed' = pushed + 1
  /\ loopJ' = loopJ + 1
  /\ UNCHANGED <<contourInterval, gridSizeInput, stagePc, stageLoading,
                 stageOutcome, loopI>>

\* for (let i = 0; i < numLat; i++): the inner loop is left.
cellLoopNextRow ==
  /\ UNCHANGED nonStageVars
  /\ stagePc = "cells"
  /\ JsLess(loopI, numLatOf(gridSizeInput))
  /\ ~JsLess(loopJ, numLngOf(gridSizeInput))
  /\ loopI' = loopI + 1
  /\ loopJ' = 0
  /\ UNCHANGED <<contourInterval, gridSizeInput, stagePc, stageLoading,
                 stageOutcome, pushed>>

\* The row loop is left; setGridData and the finally follow.
cellLoopExit ==
  /\ UNCHANGED nonStageVars
  /\ stagePc = "cells"
  /\ ~JsLess(loopI, numLatOf(gridSizeInput))
  /\ stagePc' = "idle"
  /\ stageLoading' = FALSE
  /\ stageOutcome' = "result"
  /\ UNCHANGED <<contourInterval, gridSizeInput, loopI, loopJ, pushed>>

\* The array cannot grow further.  The engine ends the page's script (out
\* of memory), or throws an error that the handler's catch receives.
arrayExhausted(caught) ==
  /\ UNCHANGED nonStageVars
  /\ pushed = MaxArrayLength
  /\ \/ /\ stagePc = "thresholds"
        /\ JsLeq(loopI, StageElevations.maxElevation)
     \/ /\ stagePc = "cells"
        /\ JsLess(loopI, numLatOf(gridSizeInput))
        /\ JsLess(loopJ, numLngOf(gridSizeInput))
  /\ IF caught
       THEN /\ stagePc' = "idle"
            /\ stageLoading' = FALSE
            /\ stageOutcome' = "error"
       ELSE /\ stagePc' = "crashed"
            /\ UNCHANGED <<stageLoading, stageOutcome>>
  /\ UNCHANGED <<contourInterval, gridSizeInput, loopI, loopJ, pushed>>

\* The values Number(e.target.value) can store.
IntervalInputs == {-10, -5, 0, 5, 10}
GridSizeInputs == {-2, 0, 2, 3, 5}

StageIdle ==
  /\ contourInterval = 10
  /\ gridSizeInput = 5
  /\ stagePc = "idle"
  /\ stageLoading = FALSE
  /\ stageOutcome = "none"
  /\ loopI = 0
  /\ loopJ = 0
  /\ pushed = 0

StageStep ==
  \/ thresholdLoopStep
  \/ thresholdLoopExit
  \/ cellLoopStep
  \/ cellLoopNextRow
  \/ cellLoopExit
  \/ \E caught \in BOOLEAN : arrayExhausted(caught)

(***************************************************************************)
(* Spec: the App driven through its rendered controls.                     *)
(* SpecHandlers: the handlers called as functions, guarded only by their   *)
(* own early returns.                                                      *)
(***************************************************************************)
AppStep(ui) ==
  \/ \E a \in Areas : SelectArea(ui, a)
  \/ ClearArea(ui)
  \/ \E v \in {"landing", "generator"} : handleViewChange(ui, v)
  \/ fetchElevationData(ui)
  \/ handleGenerateElevationData(ui)
  \/ \E i \in 1..MaxPending, ok \in BOOLEAN : FetchSettle(i, ok)
  \/ \E ok \in BOOLEAN : App_generateContours(ui, ok)
  \/ \E ok \in BOOLEAN : handleGenerateContours(ui, ok)
  \/ \E ok \in BOOLEAN : App_generateGrid(ui, ok)
  \/ \E ok \in BOOLEAN : handleGenerateGrid(ui, ok)
  \/ \E f \in Formats, t \in BOOLEAN : App_exportMap(ui, f, t)
  \/ \E f \in Formats, t \in BOOLEAN : handleExport(ui, f, t)
  \/ \E i \in 1..MaxPending, ok \in BOOLEAN : ExportSettle(i, ok)

vars == <<appVars, elevVars, contourVars, gridVars, idVars, renderVars,
          exportVars, selectionVars, simplifyVars, stageVars>>

AppIdle ==
  /\ variant = "A"
  /\ appView = "generator"
  /\ selectedArea = NoArea
  /\ elevationData = NoArea
  /\ contourData = NoArea
  /\ gridData = NoArea
  /\ loading = FALSE
  /\ error = null
  /\ pending = <<>>
  /\ lastCall = Call("init", "none")

Init ==
  AppInit /\ ElevIdle /\ ContourIdle /\ GridIdle /\ IdIdle /\ RenderIdle
  /\ ExportIdle
  /\ SelectionIdle
  /\ SimplifyIdle
  /\ StageIdle

Next == AppStep(TRUE)

Spec == Init /\ [][Next]_vars

NextHandlers == AppStep(FALSE)

SpecHandlers == Init /\ [][NextHandlers]_vars

(***************************************************************************)
(* SpecElevation: ElevationService applied to every bounds of ValidBounds. *)
(***************************************************************************)
InitElevation ==
  AppIdle /\ ElevInit /\ ContourIdle /\ GridIdle /\ IdIdle /\ RenderIdle
  /\ ExportIdle
  /\ SelectionIdle
  /\ SimplifyIdle
  /\ StageIdle

NextElevation ==
  \/ getElevationData
  \/ getOpenTopographyData

SpecElevation == InitElevation /\ [][NextElevation]_vars

(***************************************************************************)
(* SpecContours: both generateContours revisions applied to every raster   *)
(* of Rasters and every interval of IntervalSamples.                       *)
(***************************************************************************)
InitContours ==
  AppIdle /\ ElevIdle /\ ContourInit /\ GridIdle /\ IdIdle /\ RenderIdle
  /\ ExportIdle
  /\ SelectionIdle
  /\ SimplifyIdle
  /\ StageIdle

NextContours ==
  \/ generateContours
  \/ generateContoursD3
  \/ generateContoursAsync

SpecContours == InitContours /\ [][NextContours]_vars

(***************************************************************************)
(* SpecGrid: both generateGrid revisions applied to the bounds, grid types,*)
(* cell sizes and label configurations of GridInit.  SpecCellId:           *)
(* generateCellId applied to every column of ColumnSamples.                *)
(***************************************************************************)
InitGrid ==
  AppIdle /\ ElevIdle /\ ContourIdle /\ GridInit /\ IdIdle /\ RenderIdle
  /\ ExportIdle
  /\ SelectionIdle
  /\ SimplifyIdle
  /\ StageIdle

NextGrid ==
  \/ generateGrid
  \/ generateGridConfig

SpecGrid == InitGrid /\ [][NextGrid]_vars

InitCellId ==
  /\ AppIdle /\ ElevIdle /\ ContourIdle /\ IdInit /\ RenderIdle
  /\ ExportIdle
  /\ SelectionIdle
  /\ SimplifyIdle
  /\ StageIdle
  /\ gridBounds = [north |-> 3, south |-> -3, east |-> 2, west |-> -4]
  /\ gridType = "square"
  /\ gridSize = 2
  /\ gridConfig \in GridConfigs
  /\ gridCall = "none"
  /\ grid = <<>>

NextCellId == callGenerateCellId

SpecCellId == InitCellId /\ [][NextCellId]_vars

(***************************************************************************)
(* SpecRender: one drawing of a map, by RenderService.renderToCanvas or by *)
(* ExportService.exportMap.                                                *)
(***************************************************************************)
InitRender ==
  /\ AppIdle /\ ElevIdle /\ ContourIdle /\ GridIdle /\ IdIdle /\ ExportIdle
  /\ SelectionIdle
  /\ SimplifyIdle
  /\ StageIdle
  /\ RenderInit

NextRender ==
  \/ renderToCanvas
  \/ exportMapDraw

SpecRender == InitRender /\ [][NextRender]_vars

(***************************************************************************)
(* SpecExport: one call of ExportService.exportMap, in any of its three    *)
(* revisions, up to the size of the canvas.                                *)
(***************************************************************************)
InitExport ==
  /\ AppIdle /\ ElevIdle /\ ContourIdle /\ GridIdle /\ IdIdle /\ RenderIdle
  /\ SelectionIdle
  /\ SimplifyIdle
  /\ StageIdle
  /\ ExportInit

NextExport ==
  \/ ES_exportMap
  \/ ES2_exportMap
  \/ P6_exportMap

SpecExport == InitExport /\ [][NextExport]_vars

(***************************************************************************)
(* SpecSelection: the draw events of the map, in the revision where the    *)
(* App builds the map itself and in the revision with TerrainMap.          *)
(***************************************************************************)
InitSelection ==
  /\ AppIdle /\ ElevIdle /\ ContourIdle /\ GridIdle /\ IdIdle /\ RenderIdle
  /\ ExportIdle /\ SimplifyIdle
  /\ StageIdle
  /\ SelectionInit

NextSelection ==
  \/ \E b \in Rectangles : App_onCreated(b)
  \/ \E b \in Rectangles : handleCreated(b)
  \/ \E b \in Rectangles : handleEdited(b)
  \/ handleDeleted

SpecSelection == InitSelection /\ [][NextSelection]_vars

(***************************************************************************)
(* SpecSimplify: one call of ContourService.simplifyContours.              *)
(***************************************************************************)
InitSimplify ==
  /\ AppIdle /\ ElevIdle /\ ContourIdle /\ GridIdle /\ IdIdle /\ RenderIdle
  /\ ExportIdle /\ SelectionIdle /\ StageIdle
  /\ SimplifyInit

NextSimplify == callSimplifyContours

SpecSimplify == InitSimplify /\ [][NextSimplify]_vars

(***************************************************************************)
(* SpecStages: the contour and grid stages run from the App.  SpecStagesFair*)
(* adds that a handler, once called, keeps running: JavaScript runs a      *)
(* handler to completion, so a loop step that can be taken is taken.       *)
(***************************************************************************)
InitStages ==
  /\ AppIdle /\ ElevIdle /\ ContourIdle /\ GridIdle /\ IdIdle /\ RenderIdle
  /\ ExportIdle /\ SelectionIdle /\ SimplifyIdle
  /\ StageIdle

NextStages ==
  \/ \E v \in IntervalInputs : setContourInterval(v)
  \/ \E v \in GridSizeInputs : setGridSize(v)
  \/ startGenerateContours
  \/ startGenerateGrid
  \/ StageStep

SpecStages == InitStages /\ [][NextStages]_vars

SpecStagesFair == SpecStages /\ WF_vars(StageStep)

(***************************************************************************)
(* Claims about the App pipeline.                                          *)
(***************************************************************************)
Stages == {"fetch", "contours", "grid", "export"}

ExportPrerequisiteAbsent ==
  elevationData = NoArea \/ contourData = NoArea \/ gridData = NoArea

FailureMessageOf(op) ==
  CASE op = "fetch" -> MsgFetchFailed
    [] op = "contours" -> MsgContoursFailed
    [] op = "grid" -> MsgGridFailed
    [] op = "export" -> MsgExportFailed

\* C2: the step in which a stage fails sets that stage's one error message,
\* leaves loading false and changes none of elevationData, contourData,
\* gridData, selectedArea; the step that starts a stage changes none either.
C2_FailureKeepsArtifacts ==
  [][ /\ (lastCall'.op \in Stages /\ lastCall'.outcome \in {"failed", "rejected"})
         => /\ error' = FailureMessageOf(lastCall'.op)
            /\ loading' = FALSE
            /\ artifacts' = artifacts
      /\ (lastCall'.op \in Stages /\ lastCall'.outcome = "started")
         => artifacts' = artifacts ]_vars

C2_Witness ==
  /\ lastCall = Call("export", "rejected")
  /\ elevationData # NoArea /\ contourData # NoArea /\ gridData # NoArea
  /\ selectedArea # NoArea
  /\ error = MsgExportFailed
  /\ ~loading

\* C3: at most one stage is in progress; loading is true exactly while one
\* is; while loading is true no stage handler is invoked; and a stage
\* artifact is never written while another handler's fetch is in progress.
C3_SingleActiveRun ==
  [][ /\ Len(pending') <= 1
      /\ loading' = (pending' # <<>>)
      /\ loading => (lastCall'.op \in Stages
                       => lastCall'.outcome \in {"resolved", "rejected"})
      /\ (<<elevationData, contourData, gridData>>'
             # <<elevationData, contourData, gridData>>)
         => \A i \in 1..Len(pending') : pending'[i].op # "fetch" ]_vars

C3_Witness ==
  /\ loading
  /\ Len(pending) = 1
  /\ pending[1].op = "export"
  /\ lastCall = Call("selectArea", "done")


(***************************************************************************)
(* C4.  An area is over the cap when its raster at full resolution would   *)
(* be larger than the service allows on one side.                          *)
(***************************************************************************)
OverCap(b) == Max2(RawWidth(b), RawHeight(b)) > maxSize

OpenTopoOverCap(b) ==
  \/ CeilDiv((b.east - b.west) * OpenTopoSamplesPerDegree, UnitsPerDegree)
       > OpenTopoMaxSize
  \/ CeilDiv((b.north - b.south) * OpenTopoSamplesPerDegree, UnitsPerDegree)
       > OpenTopoMaxSize

C5_RasterWellFormed ==
  elevCall = "getElevationData"
    => /\ bounds.north > bounds.south /\ bounds.east > bounds.west
       /\ 1 <= elev.width /\ elev.width <= maxSize
       /\ 1 <= elev.height /\ elev.height <= maxSize
       /\ Len(elev.data) = elev.width * elev.height
       /\ elev.minElevation <= elev.maxElevation
       /\ \A i \in 1..Len(elev.data) :
            /\ elev.minElevation <= elev.data[i]
            /\ elev.data[i] <= elev.maxElevation
       /\ \E i \in 1..Len(elev.data) : elev.data[i] = elev.minElevation
       /\ \E i \in 1..Len(elev.data) : elev.data[i] = elev.maxElevation

(***************************************************************************)
(* C6 - C10: generateContours.                                             *)
(***************************************************************************)
BaseElevation == FloorDiv(raster.minElevation, interval) * interval

\* ths is base, base + interval, ... ending at the greatest such value <= top.
Progression(ths, base, top) ==
  /\ Len(ths) >= 1
  /\ ths[1] = base
  /\ \A k \in 1..(Len(ths) - 1) : ths[k + 1] = ths[k] + interval
  /\ ths[Len(ths)] <= top
  /\ ths[Len(ths)] + interval > top

\* Every sample lies in the band [t, t + interval) of some threshold t.
BandsCoverSamples ==
  \A i \in 1..Len(raster.data) :
    \E k \in 1..Len(thresholds) :
      /\ thresholds[k] <= raster.data[i]
      /\ raster.data[i] < thresholds[k] + interval

\* C6 as stated: the thresholds are base + k * interval up to maxElevation
\* (the last one <= maxElevation), and every sample lies in some band.
C6_ThresholdsUpToMax ==
  contourCall # "none"
    => /\ Progression(thresholds, BaseElevation, raster.maxElevation)
       /\ BandsCoverSamples

\* C6 amended: the thresholds are base + k * interval, ending at the greatest
\* one <= maxElevation in ContourService.ts and at
\* ceil(maxElevation / interval) * interval in the d3 revision; in both every
\* sample lies in the band [t, t + interval) of some threshold t.
C6_ThresholdsPerRevision ==
  /\ contourCall = "ContourService.ts"
       => /\ Progression(thresholds, BaseElevation, raster.maxElevation)
          /\ BandsCoverSamples
  /\ contourCall = "part_007"
       => /\ Progression(thresholds, BaseElevation,
                         CeilDiv(raster.maxElevation, interval) * interval)
          /\ BandsCoverSamples

C6_Witness ==
  /\ contourCall = "part_007"
  /\ interval = 10
  /\ raster.minElevation = -7
  /\ raster.maxElevation = 23
  /\ thresholds = <<-10, 0, 10, 20, 30>>

\* The blocks of the raster and their four corner samples.
Blocks == (0..(raster.width - 2)) \X (0..(raster.height - 2))

BlockSamples(b) ==
  {raster.data[(b[2] + dy) * raster.width + b[1] + dx + 1] :
     dx \in {0, 1}, dy \in {0, 1}}

BlockCrossed(b, t) ==
  /\ \E v \in BlockSamples(b) : v >= t
  /\ \E v \in BlockSamples(b) : v < t

\* The point p lies strictly inside block b (p in the units of CellCenter).
InBlock(p, b) ==
  LET dLng == raster.bounds.east - raster.bounds.west
      dLat == raster.bounds.north - raster.bounds.south
      lng0 == 2 * raster.width * raster.bounds.west
      lat0 == 2 * raster.height * raster.bounds.north
  IN  /\ lng0 + 2 * b[1] * dLng < p.lng
      /\ p.lng < lng0 + (2 * b[1] + 2) * dLng
      /\ lat0 - (2 * b[2] + 2) * dLat < p.lat
      /\ p.lat < lat0 - 2 * b[2] * dLat

\* The rings of the contour of threshold t (none when no contour has it).
RingsOf(t) ==
  IF \E j \in 1..Len(contours) : contours[j].elevation = t
    THEN (CHOOSE c \in {contours[j] : j \in 1..Len(contours)} :
            c.elevation = t).coordinates
    ELSE <<>>

\* C7: for every threshold and every block, the block contributes a ring to
\* the threshold's contour iff some corner is >= threshold and some corner
\* is < threshold; every ring comes from one such block.
C7_RingIffCrossed ==
  contourCall = "ContourService.ts"
    => /\ \A j \in 1..Len(contours) :
            \E k \in 1..Len(thresholds) :
              contours[j].elevation = thresholds[k]
       /\ \A k \in 1..Len(thresholds) :
            LET rings == RingsOf(thresholds[k])
            IN  /\ \A b \in Blocks :
                     BlockCrossed(b, thresholds[k])
                       <=> \E n \in 1..Len(rings) :
                             \A m \in 1..Len(rings[n]) :
                               InBlock(rings[n][m], b)
                /\ Len(rings) =
                     Cardinality({b \in Blocks :
                                    BlockCrossed(b, thresholds[k])})

C7_Witness ==
  /\ contourCall = "ContourService.ts"
  /\ Cardinality(Blocks) = 2
  /\ \E j \in 1..Len(contours) : Len(contours[j].coordinates) = 1
  /\ \E j \in 1..Len(contours) : Len(contours[j].coordinates) = 2

Flat(r) == \A i \in 1..Len(r.data) : r.data[i] = r.data[1]

\* C9: for a perfectly flat raster generateContours returns an empty list.
C9_FlatRasterNoContours ==
  (contourCall # "none" /\ Flat(raster)) => contours = <<>>

\* The raster is two constant halves, left | right or top / bottom, of
\* elevations that differ by more than one interval; it has blocks.
SplitColumns(r) ==
  /\ r.width % 2 = 0
  /\ \A i \in 1..Len(r.data) :
       r.data[i] = IF 2 * ((i - 1) % r.width) < r.width
                     THEN r.data[1] ELSE r.data[r.width]

SplitRows(r) ==
  /\ r.height % 2 = 0
  /\ \A i \in 1..Len(r.data) :
       r.data[i] = IF 2 * ((i - 1) \div r.width) < r.height
                     THEN r.data[1] ELSE r.data[Len(r.data)]

TwoHalves(r) ==
  /\ r.width >= 2
  /\ r.height >= 2
  /\ SplitColumns(r) \/ SplitRows(r)
  /\ r.maxElevation - r.minElevation > interval

\* C10 as stated: for two constant halves differing by more than one
\* interval exactly one contour level is produced.
C10_ExactlyOneLevel ==
  (contourCall = "ContourService.ts" /\ TwoHalves(raster))
    => Len(contours) = 1

\* C10 amended: for two constant halves of elevations L < H differing by more
\* than one interval, in a raster at least 2 wide and 2 high, the levels
\* produced are exactly the multiples t of the interval with L < t <= H (at
\* least one), each with one ring per block that spans the boundary.
C10_LevelsBetweenHalves ==
  (contourCall = "ContourService.ts" /\ TwoHalves(raster))
    => /\ Len(contours) >= 1
       /\ {contours[j].elevation : j \in 1..Len(contours)}
            = {t \in (raster.minElevation + 1)..raster.maxElevation :
                 t % interval = 0}
       /\ \A j \in 1..Len(contours) :
            Len(contours[j].coordinates)
              = Cardinality({b \in Blocks :
                               Cardinality(BlockSamples(b)) = 2})

C10_Witness ==
  /\ contourCall = "ContourService.ts"
  /\ TwoHalves(raster)
  /\ raster.minElevation = -7
  /\ raster.maxElevation = 23
  /\ interval = 10
  /\ Len(contours) = 3

(***************************************************************************)
(* C11, C12: isMajor and generateContoursAsync.                            *)
(***************************************************************************)
MajorStep == interval * majorIntervalDefault

LevelOf(c) == IF "level" \in DOMAIN c THEN c.level ELSE c.elevation

\* C11: every ContourLine produced carries isMajor, and isMajor is true
\* exactly when its level is an integer multiple of
\* interval * majorEveryNIntervals.
C11_IsMajorDefined ==
  contourCall # "none"
    => \A j \in 1..Len(contours) :
         /\ "isMajor" \in DOMAIN contours[j]
         /\ contours[j].isMajor \in BOOLEAN
         /\ contours[j].isMajor
              <=> (LevelOf(contours[j]) % MajorStep = 0)

\* C12: the list generateContoursAsync resolves is the list generateContours
\* returns for the same raster, interval and major interval.
C12_AsyncSameAsSync ==
  contourCall \in {"part_007.async.worker", "part_007.async.fallback"}
    => contours = ContourLinesD3(raster, ThresholdsD3(raster, interval),
                                 interval, majorIntervalDefault)

(***************************************************************************)
(* C13 - C16: the grid.                                                    *)
(***************************************************************************)
GridDone == gridCall # "none"

LatSpan == GridDen * (gridBounds.north - gridBounds.south)
LngSpan == GridDen * (gridBounds.east - gridBounds.west)

\* The size of the first cell, read off its ring (NW, NE, SE, ...).
CellWidth == grid[1].coordinates[2].lng - grid[1].coordinates[1].lng
CellHeight == grid[1].coordinates[2].lat.r - grid[1].coordinates[3].lat.r

\* The least n with n * size >= span.
CellsToCover(span, size) ==
  CHOOSE n \in 1..span : n * size >= span /\ (n - 1) * size < span

\* C13: in square mode the number of cells is rows * cols with
\* rows = ceil(latSpan / cellSizeLat) and cols = ceil(lngSpan / cellSizeLng);
\* when the cell size divides a span evenly the count in that axis is
\* span / cellSize and the last cell ends on the bounds.
C13_SquareCellCount ==
  (GridDone /\ gridType = "square")
    => /\ Len(grid) >= 1
       /\ CellWidth > 0 /\ CellHeight > 0
       /\ LET rows == CellsToCover(LatSpan, CellHeight)
              cols == CellsToCover(LngSpan, CellWidth)
          IN  /\ Len(grid) = rows * cols
              /\ {<<grid[k].col, grid[k].row>> : k \in 1..Len(grid)}
                   = (0..(cols - 1)) \X (0..(rows - 1))
              /\ LngSpan % CellWidth = 0
                   => /\ cols * CellWidth = LngSpan
                      /\ grid[Len(grid)].coordinates[2].lng
                           = GridDen * gridBounds.east
              /\ LatSpan % CellHeight = 0
                   => /\ rows * CellHeight = LatSpan
                      /\ grid[Len(grid)].coordinates[3].lat
                           = Q(GridDen * gridBounds.south, 0)

C13_Witness ==
  /\ gridCall = "ElevationService.ts"
  /\ gridType = "square"
  /\ gridBounds.north - gridBounds.south = 6
  /\ gridBounds.east - gridBounds.west = 10
  /\ gridBounds.north > SixtyLat
  /\ gridSize = 3
  /\ Len(grid) = 4

\* (b - a) x (c - a), for points with integer lng and lat in Q(sqrt 3).
Cross(a, b, c) ==
  QSub(QScale(b.lng - a.lng, QSub(c.lat, a.lat)),
       QScale(c.lng - a.lng, QSub(b.lat, a.lat)))

\* c lies strictly inside the convex ring: on the same side of every edge.
StrictlyInside(c, ring) ==
  \/ \A k \in 1..(Len(ring) - 1) : QSign(Cross(ring[k], ring[k + 1], c)) = 1
  \/ \A k \in 1..(Len(ring) - 1) : QSign(Cross(ring[k], ring[k + 1], c)) = -1

\* NW, NE, SE, SW, NW.
SquareRing(ring) ==
  /\ Len(ring) = 5
  /\ ring[5] = ring[1]
  /\ ring[1].lng = ring[4].lng /\ ring[2].lng = ring[3].lng
  /\ ring[1].lng < ring[2].lng
  /\ ring[1].lat = ring[2].lat /\ ring[3].lat = ring[4].lat
  /\ QLess(ring[3].lat, ring[1].lat)

\* The squared distance in the plane of metres between two points of a grid
\* of GridService.ts, whose longitudes are metres * lngDegreePerMeter
\* (the inverse cosine of the north latitude), as a number of Q(sqrt 3).
MetricSquare(a, b) ==
  LET dx == (a.lng - b.lng) \div InverseCos(gridBounds.north)
      dy == QSub(a.lat, b.lat)
  IN  Q(dx * dx + dy.r * dy.r + 3 * dy.s * dy.s, 2 * dy.r * dy.s)

\* Six vertices at 60-degree steps around the centre: all at one distance
\* from it, each at that same distance from the next.
SixtyDegreeSteps(c, ring) ==
  \A k \in 1..6 :
    /\ MetricSquare(ring[k], c) = MetricSquare(ring[1], c)
    /\ MetricSquare(ring[k], ring[k + 1]) = MetricSquare(ring[1], c)
    /\ MetricSquare(ring[1], c) # Q(0, 0)

\* C14: every cell's ring is closed; a square cell has the 5 points NW, NE,
\* SE, SW, NW; a hex cell has 7 points, 6 vertices and the closing point (in
\* GridService.ts at 60-degree steps around the centre); the centre of each
\* cell lies inside its ring.
C14_CellRings ==
  GridDone
    => \A n \in 1..Len(grid) :
         LET ring == grid[n].coordinates
         IN  /\ Len(ring) >= 1 /\ ring[Len(ring)] = ring[1]
             /\ gridType = "square" => SquareRing(ring)
             /\ gridType = "hex"
                  => /\ Len(ring) = 7
                     /\ \A j, k \in 1..6 : j # k => ring[j] # ring[k]
             /\ (gridType = "hex" /\ gridCall = "GridService.ts")
                  => SixtyDegreeSteps(grid[n].center, ring)
             /\ StrictlyInside(grid[n].center, ring)

C14_Witness ==
  /\ gridCall = "GridService.ts"
  /\ gridType = "hex"
  /\ gridBounds.north > SixtyLat
  /\ Len(grid) >= 6
  /\ grid[Len(grid)].row >= 2

\* The cells of a grid at a column and row.
CellsAt(col, row) ==
  {n \in 1..Len(grid) : grid[n].col = col /\ grid[n].row = row}

\* The horizontal spacing between adjacent centres of one row, read off the
\* first two cells of row 0.
HorizSpacing ==
  LET a == CHOOSE n \in CellsAt(0, 0) : TRUE
      b == CHOOSE n \in CellsAt(1, 0) : TRUE
  IN  grid[b].center.lng - grid[a].center.lng

\* C15: in hex mode the centre of cell (c, r+1) is displaced horizontally
\* from the centre of cell (c, r) by half the horizontal spacing between
\* adjacent centres of a row: odd rows are shifted east by half a spacing,
\* even rows are not shifted.
C15_OddRowsHalfSpacing ==
  (GridDone /\ gridType = "hex" /\ CellsAt(0, 0) # {} /\ CellsAt(1, 0) # {})
    => /\ HorizSpacing > 0
       /\ \A m, n \in 1..Len(grid) :
            /\ (grid[m].col = grid[n].col /\ grid[n].row = grid[m].row + 1)
                 => 2 * (grid[n].center.lng - grid[m].center.lng)
                      = (IF grid[n].row % 2 = 1 THEN HorizSpacing
                                                ELSE 0 - HorizSpacing)
            /\ (grid[m].row = grid[n].row /\ grid[n].col = grid[m].col + 1)
                 => grid[n].center.lng - grid[m].center.lng = HorizSpacing
            /\ (grid[m].col = grid[n].col /\ grid[m].row % 2 = grid[n].row % 2)
                 => grid[n].center.lng = grid[m].center.lng

C15_Witness ==
  /\ GridDone
  /\ gridType = "hex"
  /\ \E c \in 0..1 : CellsAt(c, 0) # {} /\ CellsAt(c, 1) # {}
                       /\ CellsAt(c, 2) # {} /\ CellsAt(c + 1, 1) # {}

\* The cell size in degrees of latitude, times GridDen: gridSize feet
\* through latDegreePerMeter in GridService.ts, gridSizeKm / 111 in
\* ElevationService.ts.
CellSizeLat == GridDen * gridSize

\* 0.75 * hex height: hex height = 2 * circumradius, circumradius =
\* inradius * 2 / sqrt(3), inradius = cellSize / 2.
ThreeQuarterHexHeight ==
  LET inradius == CellSizeLat \div 2
      circumradius == Q(0, (2 * inradius) \div 3)
      hexHeight == QScale(2, circumradius)
  IN  Q((3 * hexHeight.r) \div 4, (3 * hexHeight.s) \div 4)

\* The centres of consecutive rows are 0.75 * hex height apart.
C16_RowSpacing ==
  (GridDone /\ gridType = "hex")
    => \A m, n \in 1..Len(grid) :
         grid[n].row = grid[m].row + 1
           => QSub(grid[m].center.lat, grid[n].center.lat)
                = ThreeQuarterHexHeight

\* No vertex of a cell lies strictly inside another cell.
NoOverlap ==
  \A m, n \in 1..Len(grid) :
    m # n => \A k \in 1..6 :
               ~StrictlyInside(grid[m].coordinates[k], grid[n].coordinates)

\* Cells that are neighbours in a row share an edge.
NoGap ==
  \A m, n \in 1..Len(grid) :
    (grid[m].row = grid[n].row /\ grid[n].col = grid[m].col + 1)
      => Cardinality({grid[m].coordinates[k] : k \in 1..6}
                       \cap {grid[n].coordinates[k] : k \in 1..6}) = 2

\* C16: in hex mode the centres of consecutive rows are 0.75 * hex height
\* apart, and with the odd-row offset the hexes interlock: none overlaps
\* another and neighbours leave no gap.
C16_HexesInterlock ==
  (GridDone /\ gridType = "hex")
    => /\ C16_RowSpacing
       /\ NoOverlap
       /\ NoGap

\* The number m written with exactly len letters, A = 0 ... Z = 25.
RECURSIVE LetterDigits(_, _)
LetterDigits(m, len) ==
  IF len = 0 THEN ""
  ELSE LetterDigits(m \div 26, len - 1) \o Letters[(m % 26) + 1]

\* Bijective base 26: the 26 one-letter strings, then the 676 two-letter
\* strings, then the three-letter strings, each block in alphabetical order.
BijectiveBase26(n) ==
  IF n < 26 THEN LetterDigits(n, 1)
  ELSE IF n < 26 + 676 THEN LetterDigits(n - 26, 2)
  ELSE LetterDigits(n - 26 - 676, 3)

CellIdDone == cellId # NoId

LettersAndRow ==
  /\ cellId = BijectiveBase26(cellX) \o ToString(cellY + 1)
  /\ cellX = 0 => cellId = "A" \o ToString(cellY + 1)
  /\ cellX = 25 => cellId = "Z" \o ToString(cellY + 1)
  /\ cellX = 26 => cellId = "AA" \o ToString(cellY + 1)
  /\ cellX = 27 => cellId = "AB" \o ToString(cellY + 1)
  /\ cellX = 701 => cellId = "ZZ" \o ToString(cellY + 1)
  /\ cellX = 702 => cellId = "AAA" \o ToString(cellY + 1)

\* C17 as stated: with labels enabled and the alphanumeric charset the id
\* is the bijective base-26 column string followed by the 1-based row; with
\* the numeric charset it is 'col,row'; with labels disabled it is empty.
C17_CellIdAsStated ==
  CellIdDone
    => /\ ~gridConfig.showLabels => cellId = ""
       /\ (gridConfig.showLabels /\ gridConfig.labelCharset = "alphanumeric")
            => LettersAndRow
       /\ (gridConfig.showLabels /\ gridConfig.labelCharset = "numbers")
            => cellId = ToString(cellX) \o "," \o ToString(cellY)

\* C17 amended: as stated, except that with the numeric charset the id is
\* the 1-based column, a comma, and the 1-based row.
C17_CellIdOneBased ==
  CellIdDone
    => /\ ~gridConfig.showLabels => cellId = ""
       /\ (gridConfig.showLabels /\ gridConfig.labelCharset = "alphanumeric")
            => LettersAndRow
       /\ (gridConfig.showLabels /\ gridConfig.labelCharset = "numbers")
            => cellId = ToString(cellX + 1) \o "," \o ToString(cellY + 1)

C17_Witness ==
  /\ gridConfig.showLabels
  /\ gridConfig.labelCharset = "alphanumeric"
  /\ cellX = 702
  /\ cellY = 1
  /\ cellId = "AAA2"

(***************************************************************************)
(* Claims about the renderer.                                              *)
(***************************************************************************)
RenderDone == renderCall = "RenderService"

\* The moveTo and lineTo calls of a routine, in order.
PathCalls(by) ==
  SelectSeq(ops, LAMBDA c : c.by = by /\ c.op \in {"moveTo", "lineTo"})

\* The points of all rings of all contour lines, and of all cells, in the
\* order they are handed over.
ContourPoints ==
  Flatten([n \in 1..Len(renderContours) |->
             Flatten(Flatten(renderContours[n].path))])

GridPoints == Flatten([n \in 1..Len(renderGrid) |-> renderGrid[n].points])

\* The pixel px is the image of the point p under the affine map that takes
\* (west, north) to (0, 0) and (east, south) to (width, height).
IsProjected(p, px) ==
  LET b == renderBounds
  IN  /\ px[1].num * (b.east - b.west)
           = px[1].den * canvasSize[1] * (p.x - b.west)
      /\ px[2].num * (b.north - b.south)
           = px[2].den * canvasSize[2] * (b.north - p.y)
      /\ px[1].den > 0 /\ px[2].den > 0
      /\ (p.x = b.west /\ p.y = b.north)
           => px = <<[num |-> 0, den |-> 1], [num |-> 0, den |-> 1]>>
      /\ (p.x = b.east /\ p.y = b.south)
           => px = <<[num |-> canvasSize[1], den |-> 1],
                     [num |-> canvasSize[2], den |-> 1]>>

\* C18: the renderer maps (west, north) to pixel (0, 0) and (east, south)
\* to pixel (width, height), and applies the one transform to contour
\* points and to grid points: equal geographic points land on one pixel.
C18_OneProjection ==
  RenderDone
    => LET contourCalls == PathCalls("drawContours")
           gridCalls == PathCalls("drawGrid")
       IN  /\ Len(contourCalls) = Len(ContourPoints)
           /\ Len(gridCalls) = Len(GridPoints)
           /\ \A k \in 1..Len(ContourPoints) :
                IsProjected(ContourPoints[k], contourCalls[k].args)
           /\ \A k \in 1..Len(GridPoints) :
                IsProjected(GridPoints[k], gridCalls[k].args)
           /\ \A i \in 1..Len(ContourPoints), j \in 1..Len(GridPoints) :
                ContourPoints[i] = GridPoints[j]
                  => contourCalls[i].args = gridCalls[j].args

C18_Witness ==
  /\ RenderDone
  /\ canvasSize = <<612, 792>>
  /\ renderBounds.east - renderBounds.west = 3000
  /\ \E i \in 1..Len(ops), j \in 1..Len(ops) :
       /\ ops[i].by = "drawContours" /\ ops[j].by = "drawGrid"
       /\ ops[i].op = "lineTo" /\ ops[j].op = "lineTo"
       /\ ops[i].args = <<[num |-> 612, den |-> 1], [num |-> 792, den |-> 1]>>
       /\ ops[j].args = ops[i].args

\* The layer a call belongs to: 1 background, 2 contour rings, 3 contour
\* elevation labels, 4 grid cell outlines, 5 grid cell labels, 6 scale bar.
Layer(c) ==
  CASE c.by \in {"renderToCanvas", "exportMap.page", "exportMap.mapArea"} -> 1
    [] c.by = "drawContours" -> 2
    [] c.by = "exportMap.contours" /\ c.op # "fillText" -> 2
    [] c.by = "addContourLabels" -> 3
    [] c.by = "exportMap.contours" /\ c.op = "fillText" -> 3
    [] c.by = "drawGrid" /\ c.op # "fillText" -> 4
    [] c.by = "exportMap.grid" -> 4
    [] c.by = "drawGrid" /\ c.op = "fillText" -> 5
    [] c.by \in {"drawScaleBar", "exportMap.scaleBar"} -> 6

\* Labels are drawn only when enabled, elevation labels only for major
\* lines, the scale bar only when enabled (renderToCanvas).
LabelsAsEnabled ==
  \A k \in 1..Len(ops) :
    /\ Layer(ops[k]) = 3
         => /\ renderOptions.showContourLabels
            /\ \E n \in 1..Len(renderContours) :
                 /\ renderContours[n].isMajor
                 /\ ops[k].op = "fillText"
                      => ops[k].text = ToString(renderContours[n].level)
    /\ Layer(ops[k]) = 5 => renderOptions.showGridLabels
    /\ Layer(ops[k]) = 6 => renderOptions.showScaleBar

\* renderToCanvas draws the background, then contours with their labels,
\* then the grid with its labels, then the scale bar.
C19_StagesInOrder ==
  RenderDone
    => /\ Layer(ops[1]) = 1
       /\ LabelsAsEnabled
       /\ \A i, j \in 1..Len(ops) :
            i < j => Layer(ops[i]) \div 2 <= Layer(ops[j]) \div 2

\* C19: in every render the calls come in the order background fill, all
\* contour rings, contour elevation labels (major lines only, when
\* enabled), all grid cell outlines, grid cell labels (when enabled), scale
\* bar (when enabled); no call of an earlier layer follows a call of a
\* later layer.
C19_BackToFront ==
  renderCall # "none"
    => /\ Layer(ops[1]) = 1
       /\ LabelsAsEnabled
       /\ \A i, j \in 1..Len(ops) :
            i < j => Layer(ops[i]) <= Layer(ops[j])

\* The bar rectangle drawn by drawScaleBar: its length in pixels, and the
\* label under it.
ScaleBarLength ==
  LET k == CHOOSE k \in 1..Len(ops) :
             /\ ops[k].by = "drawScaleBar"
             /\ \A j \in 1..(k - 1) : ops[j].by # "drawScaleBar"
  IN  ops[k].args[3]

ScaleBarLabel ==
  LET k == CHOOSE k \in 1..Len(ops) :
             ops[k].by = "drawScaleBar" /\ ops[k].op = "fillText"
  IN  ops[k].text

\* The bar stands for `meters` metres of a map `span` metres wide on the
\* equator, at the latitude factor of the bounds.
BarStandsFor(meters, text) ==
  LET span == renderBounds.east - renderBounds.west
      inverseCos == InverseCos((renderBounds.north + renderBounds.south) \div 2)
  IN  /\ ScaleBarLength.num * span
           = meters * inverseCos * canvasSize[1] * ScaleBarLength.den
      /\ ScaleBarLabel = text

\* The real-world length follows the tiers: map width < 1 km -> 0.1 km,
\* < 5 -> 1, < 50 -> 5, < 100 -> 10, otherwise 50.
C20_ScaleBarTier ==
  (RenderDone /\ renderOptions.showScaleBar)
    => LET span == renderBounds.east - renderBounds.west
           inverseCos ==
             InverseCos((renderBounds.north + renderBounds.south) \div 2)
           \* map width in metres, times inverseCos
           w == span
           km == 1000 * inverseCos
       IN  /\ w < km => BarStandsFor(100, "100 m")
           /\ (km <= w /\ w < 5 * km) => BarStandsFor(1000, "1 km")
           /\ (5 * km <= w /\ w < 50 * km) => BarStandsFor(5000, "5 km")
           /\ (50 * km <= w /\ w < 100 * km) => BarStandsFor(10000, "10 km")
           /\ 100 * km <= w => BarStandsFor(50000, "50 km")

\* C20: drawScaleBar picks its length from the tiers by map width, and the
\* bar's pixel length never exceeds the canvas width.
C20_ScaleBarFits ==
  (RenderDone /\ renderOptions.showScaleBar)
    => /\ C20_ScaleBarTier
       /\ RatLeq(ScaleBarLength, Rat(canvasSize[1], 1))

(***************************************************************************)
(* Claims about the export.                                                *)
(***************************************************************************)
ExportDone == exportCall # "none" /\ exportCanvas # Threw

\* round(pageMm / 25.4 * dpi), the page given in micrometres.
PixelsOf(micrometres) == RoundDiv(micrometres * exportOptions.dpi, 25400)

\* C21: for a PNG export the canvas that is rendered is
\* round(pageWidthMm / 25.4 * dpi) by round(pageHeightMm / 25.4 * dpi)
\* pixels; the DPI factor is applied once.
C21_CanvasFromPage ==
  (ExportDone /\ exportOptions.format = "png")
    => exportCanvas = <<PixelsOf(pageSize.width), PixelsOf(pageSize.height)>>

\* The sizes of the named papers in micrometres, short side first.
NamedPaper ==
  [a4 |-> <<210000, 297000>>, letter |-> <<215900, 279400>>,
   legal |-> <<215900, 355600>>, a3 |-> <<297000, 420000>>,
   tabloid |-> <<279400, 431800>>]

\* Equal to half a millimetre.
Near(a, b) == a - b <= 500 /\ b - a <= 500

\* The page is the sheet short by long, one way round or the other.
PageIs(short, long) ==
  \/ Near(pageSize.width, short) /\ Near(pageSize.height, long)
  \/ Near(pageSize.width, long) /\ Near(pageSize.height, short)

OrientationKept ==
  /\ exportOptions.orientation = "landscape"
       => pageSize.width >= pageSize.height
  /\ exportOptions.orientation = "portrait"
       => pageSize.width <= pageSize.height

\* The sizes a revision's own table names.
TableOf(call) ==
  CASE call = "ExportService.ts:39" -> {"a4", "letter", "a3", "tabloid"}
    [] call = "ExportService.ts:333" -> {"a4", "letter", "legal"}
    [] call = "part_006" -> {"a4", "letter", "legal", "a3", "tabloid"}
    [] OTHER -> {}

\* For a size in the revision's table the page is that paper, turned as the
\* orientation asks.
C22_TableSizes ==
  (exportCall # "none" /\ exportOptions.paperSize \in TableOf(exportCall))
    => /\ exportCanvas # Threw
       /\ PageIs(NamedPaper[exportOptions.paperSize][1],
                 NamedPaper[exportOptions.paperSize][2])
       /\ OrientationKept

\* C22: for A4, Letter and Legal, the other named sizes and custom sizes,
\* the page has the dimensions of the paper asked for, with width >= height
\* in landscape and width <= height in portrait.
C22_PageOfNamedPaper ==
  exportCall # "none"
    => /\ exportOptions.paperSize \in {"a4", "letter", "legal"}
            => /\ exportCanvas # Threw
               /\ PageIs(NamedPaper[exportOptions.paperSize][1],
                         NamedPaper[exportOptions.paperSize][2])
       /\ (/\ exportCanvas # Threw
           /\ exportOptions.paperSize = "custom"
           /\ exportOptions.customWidth # 0)
            => PageIs(1000 * Min2(exportOptions.customWidth,
                                  exportOptions.customHeight),
                      1000 * Max2(exportOptions.customWidth,
                                  exportOptions.customHeight))
       /\ exportCanvas # Threw => OrientationKept

(***************************************************************************)
(* Export hand-over: what a started export passes to                       *)
(* ExportService.exportMap.                                                *)
(***************************************************************************)
ExportsStarted == {i \in 1..Len(pending) : pending[i].op = "export"}

\* C23: whenever an export is started, the contours and the grid handed to
\* ExportService.exportMap were derived from the bounds of the currently
\* selected area, which is passed as the export bounds.
C23_ExportOfOneSelection ==
  \A i \in ExportsStarted :
    /\ pending[i].contours = pending[i].area
    /\ pending[i].grid = pending[i].area

(***************************************************************************)
(* Claims about the selection.                                             *)
(***************************************************************************)
SelectionEvent == drawEvent.kind # "none"

\* After a create or edit event for a rectangle whose north edge is not on
\* the equator the selection is that rectangle; after a delete it is null.
C24_SelectionOffEquator ==
  /\ drawEvent.kind = "deleted" => selection = NoBounds
  /\ (drawEvent.kind \in {"created", "edited"} /\ drawEvent.bounds.north # 0)
       => selection = drawEvent.bounds

\* C24: after a delete event the App's selectedArea is null, and after a
\* create or edit event for any valid rectangle (north > south, east > west)
\* selectedArea equals that rectangle's bounds.
C24_SelectionIsEventBounds ==
  /\ drawEvent.kind = "deleted" => selection = NoBounds
  /\ (/\ drawEvent.kind \in {"created", "edited"}
      /\ drawEvent.bounds.north > drawEvent.bounds.south
      /\ drawEvent.bounds.east > drawEvent.bounds.west)
       => selection = drawEvent.bounds

(***************************************************************************)
(* Claims about the views.                                                 *)
(***************************************************************************)
PipelineEmpty ==
  /\ selectedArea = NoArea
  /\ elevationData = NoArea
  /\ contourData = NoArea
  /\ gridData = NoArea

SwitchedToLanding ==
  lastCall = Call("viewChange", "done") /\ appView = "landing"

\* In the revision with handleViewChange the switch to the landing view
\* empties the pipeline.
C25_HandleViewChangeResets ==
  (variant = "C" /\ SwitchedToLanding) => PipelineEmpty

\* C25: immediately after any transition to the landing view, selectedArea,
\* elevationData, contourData and gridData are all null.
C25_LandingResetsPipeline ==
  SwitchedToLanding => PipelineEmpty

(***************************************************************************)
(* Claims about the coverage of the grid.                                  *)
(***************************************************************************)
\* The edges of square cell n, times GridDen.
WestOf(n) == grid[n].coordinates[1].lng
EastOf(n) == grid[n].coordinates[2].lng
NorthOf(n) == grid[n].coordinates[1].lat.r
SouthOf(n) == grid[n].coordinates[3].lat.r

LastCol == CHOOSE c \in {grid[n].col : n \in 1..Len(grid)} :
             \A n \in 1..Len(grid) : grid[n].col <= c
LastRow == CHOOSE r \in {grid[n].row : n \in 1..Len(grid)} :
             \A n \in 1..Len(grid) : grid[n].row <= r

SquareGridDone == GridDone /\ gridType = "square"

\* C26: the square grid covers the requested bounds and overshoots only on
\* the south and east edges by strictly less than one cell: the first cell's
\* west and north edges are those of the bounds, adjacent cells share their
\* common edge exactly, the last column's east edge is >= bounds.east and
\* < bounds.east + cellSizeLng, and the last row's south edge is
\* <= bounds.south and > bounds.south - cellSizeLat.
C26_SquareGridCovers ==
  SquareGridDone
    => /\ Len(grid) = (LastCol + 1) * (LastRow + 1)
       /\ \A c \in 0..LastCol, r \in 0..LastRow : Cardinality(CellsAt(c, r)) = 1
       /\ \A n \in CellsAt(0, 0) :
            /\ WestOf(n) = GridDen * gridBounds.west
            /\ NorthOf(n) = GridDen * gridBounds.north
       /\ \A m, n \in 1..Len(grid) :
            /\ (grid[m].row = grid[n].row /\ grid[n].col = grid[m].col + 1)
                 => /\ EastOf(m) = WestOf(n)
                    /\ NorthOf(m) = NorthOf(n) /\ SouthOf(m) = SouthOf(n)
            /\ (grid[m].col = grid[n].col /\ grid[n].row = grid[m].row + 1)
                 => /\ SouthOf(m) = NorthOf(n)
                    /\ WestOf(m) = WestOf(n) /\ EastOf(m) = EastOf(n)
       /\ \A n \in 1..Len(grid) :
            /\ grid[n].col = LastCol
                 => /\ EastOf(n) >= GridDen * gridBounds.east
                    /\ EastOf(n) < GridDen * gridBounds.east + CellWidth
            /\ grid[n].row = LastRow
                 => /\ SouthOf(n) <= GridDen * gridBounds.south
                    /\ SouthOf(n) > GridDen * gridBounds.south - CellHeight

\* A grid of several columns and rows that overshoots on both edges.
C26_Witness ==
  /\ SquareGridDone
  /\ Len(grid) >= 4
  /\ LastCol >= 1 /\ LastRow >= 1
  /\ EastOf(Len(grid)) > GridDen * gridBounds.east
  /\ SouthOf(Len(grid)) < GridDen * gridBounds.south

HexGridDone == GridDone /\ gridType = "hex"

RowsOf == {grid[n].row : n \in 1..Len(grid)}

\* The vertical spacing between the centres of rows 0 and 1.
RowSpacing ==
  LET a == CHOOSE n \in 1..Len(grid) : grid[n].row = 0
      b == CHOOSE n \in 1..Len(grid) : grid[n].row = 1
  IN  QSub(grid[a].center.lat, grid[b].center.lat)

QLeq(p, q) == ~QLess(q, p)
QAbs(p) == IF QSign(p) = -1 THEN QSub(Q(0, 0), p) ELSE p

\* The easternmost centre of a row, and the centres of the last row.
EasternmostOf(r) ==
  CHOOSE n \in 1..Len(grid) :
    /\ grid[n].row = r
    /\ \A m \in 1..Len(grid) :
         grid[m].row = r => grid[m].center.lng <= grid[n].center.lng

SouthernmostRow ==
  CHOOSE r \in RowsOf : \A q \in RowsOf : q <= r

SeveralHexes == HexGridDone /\ CellsAt(0, 0) # {} /\ CellsAt(1, 0) # {}
                  /\ 1 \in RowsOf

HexCoversEastAndSouth ==
  /\ \A r \in RowsOf :
       Abs(GridDen * gridBounds.east - grid[EasternmostOf(r)].center.lng)
         <= HorizSpacing
  /\ \A n \in 1..Len(grid) :
       grid[n].row = SouthernmostRow
         => QLeq(QAbs(QSub(grid[n].center.lat,
                           Q(GridDen * gridBounds.south, 0))),
                 RowSpacing)

CentresWithinBounds ==
  \A n \in 1..Len(grid) :
    /\ GridDen * gridBounds.west <= grid[n].center.lng
    /\ grid[n].center.lng <= GridDen * gridBounds.east
    /\ QLeq(Q(GridDen * gridBounds.south, 0), grid[n].center.lat)
    /\ QLeq(grid[n].center.lat, Q(GridDen * gridBounds.north, 0))

\* The grid of ElevationService.ts reaches the east and south edges and
\* keeps its centres within the bounds.
C27_ConfigHexGridCovers ==
  (SeveralHexes /\ gridCall = "ElevationService.ts")
    => HexCoversEastAndSouth /\ CentresWithinBounds

\* C27: the hex grid covers the area: in every generated row the easternmost
\* hex centre is within one horizontal centre spacing of bounds.east, and
\* the southernmost row's centres are within one row spacing of
\* bounds.south; in the config variant every emitted centre lies within the
\* bounds.
C27_HexGridCovers ==
  SeveralHexes
    => /\ HexCoversEastAndSouth
       /\ gridCall = "ElevationService.ts" => CentresWithinBounds

(***************************************************************************)
(* Claims about the ids of a generated grid.                               *)
(***************************************************************************)
\* GridService.ts always labels its cells; ElevationService.ts does when
\* config.showLabels is set.
LabelsEnabled == gridCall = "GridService.ts" \/ gridConfig.showLabels

\* The id the revision gives to the cell at a column and row.
IdOfIndex(col, row) ==
  IF gridCall = "GridService.ts"
    THEN gridType \o "-" \o ToString(col) \o "-" \o ToString(row)
    ELSE generateCellId(col, row, gridConfig)

\* The cell list a second call with the same bounds and configuration
\* returns.
GeneratedAgain ==
  LET b == gridBounds
      widthMeters == calculateDistance(b.north, b.west, b.north, b.east)
      heightMeters == calculateDistance(b.north, b.west, b.south, b.west)
      cellsX == CeilDiv(widthMeters.num,
                        widthMeters.den * cellSizeMetersOf(gridSize))
      cellsY == CeilDiv(heightMeters.num,
                        heightMeters.den * cellSizeMetersOf(gridSize))
  IN  IF gridCall = "GridService.ts"
        THEN IF gridType = "hex"
               THEN GS_generateHexGrid(b, cellsX, cellsY,
                                       cellSizeMetersOf(gridSize))
               ELSE GS_generateSquareGrid(b, cellsX, cellsY,
                                          cellSizeMetersOf(gridSize))
        ELSE IF gridType = "hex"
               THEN CF_generateHexGrid(b, gridSize, gridConfig)
               ELSE CF_generateSquareGrid(b, gridSize, gridConfig)

SimplifyDone == simplifyResult # NotSimplified

\* out is in with some elements left out, in the same order.
RECURSIVE IsSubsequence(_, _)
IsSubsequence(out, in) ==
  IF out = <<>> THEN TRUE
  ELSE IF in = <<>> THEN FALSE
  ELSE IF Head(out) = Head(in) THEN IsSubsequence(Tail(out), Tail(in))
  ELSE IsSubsequence(out, Tail(in))

\* First point = last point, with at least 2 distinct points.
ClosedRing(ring) ==
  /\ Len(ring) >= 2
  /\ ring[1] = ring[Len(ring)]
  /\ \E k \in 1..Len(ring) : ring[k] # ring[1]

EndsWhereItStarts(ring) == ring # <<>> /\ ring[1] = ring[Len(ring)]

\* The rings of the argument and of the result, pair by pair.
RingPairs ==
  {<<simplifyArg[c].path[p][r], simplifyResult[c].path[p][r]>> :
     c \in 1..Len(simplifyArg), p \in {1}, r \in {1, 2}}

StructureKept ==
  /\ Len(simplifyResult) = Len(simplifyArg)
  /\ \A c \in 1..Len(simplifyArg) :
       /\ simplifyResult[c].level = simplifyArg[c].level
       /\ simplifyResult[c].isMajor = simplifyArg[c].isMajor
       /\ Len(simplifyResult[c].path) = Len(simplifyArg[c].path)
       /\ \A p \in 1..Len(simplifyArg[c].path) :
            Len(simplifyResult[c].path[p]) = Len(simplifyArg[c].path[p])
  /\ \A pair \in RingPairs :
       /\ IsSubsequence(pair[2], pair[1])
       /\ pair[1] # <<>> => (pair[2] # <<>> /\ pair[2][1] = pair[1][1])

\* Level, isMajor and the subsequence starting at the first point are kept;
\* with tolerance 0 a closed ring stays closed.
C29_SubsequenceFromFirstPoint ==
  SimplifyDone
    => /\ StructureKept
       /\ simplifyTolerance = 0
            => \A pair \in RingPairs :
                 ClosedRing(pair[1]) => EndsWhereItStarts(pair[2])

\* C29: simplifyContours preserves ring structure: for every contour and
\* tolerance >= 0 it keeps level and isMajor, each output ring is a
\* subsequence of the input ring that starts with the input's first point,
\* and a closed input ring stays closed in the output.
C29_RingStructureKept ==
  SimplifyDone
    => /\ StructureKept
       /\ \A pair \in RingPairs :
            ClosedRing(pair[1]) => EndsWhereItStarts(pair[2])

(***************************************************************************)
(* Claims about the termination of the stages.                             *)
(***************************************************************************)
\* The input the running stage computes with.
StageInput ==
  IF stagePc = "thresholds" THEN contourInterval ELSE gridSizeInput

StageFinished == ~stageLoading /\ stageOutcome \in {"result", "error"}

\* A stage started with a positive contour interval or grid size finishes.
C30_PositiveInputsFinish ==
  (stageLoading /\ stagePc \in {"thresholds", "cells"} /\ StageInput > 0)
    ~> (StageFinished /\ stageOutcome = "result")

\* C30: every pipeline stage started from the App eventually finishes: for
\* every value the contour-interval and grid-size inputs can store,
\* including 0 and negative values, the stage's computation terminates with
\* a result or an error, and loading eventually returns to false.
C30_StagesFinish ==
  stageLoading ~> StageFinished

====
